---- MODULE Spec2Model ----
(***************************************************************************)
(* Model of galafis/AI-Code-Assistant, src/src/advanced_code_assistant.py: *)
(* the collaboration session store of CodeAssistant, the three SocketIO    *)
(* handlers that drive it, and the heuristic analyzers of CodeAnalyzer.    *)
(*                                                                         *)
(* The module-level object ai_assistant is modelled as an instance of      *)
(* CodeAssistant: that is the only class that has the attributes the       *)
(* handlers use (collaboration_sessions, code_analyzer, db_manager).       *)
(***************************************************************************)
EXTENDS Integers, Sequences, FiniteSets, TLC

VARIABLES
    collaboration_sessions, \* CodeAssistant.collaboration_sessions: dict session_id -> CollaborationSession
    rooms,                  \* SocketIO rooms: room name -> set of connected clients
    inbox,                  \* per client, the events the server emitted to it, in order
    flask_session,          \* per client, the 'user_id' of its flask session (NoUser: key absent)
    clock,                  \* the latest value datetime.now() returned
    last,                   \* what the last operation was given and what it gave back
    nops,                   \* number of operations performed so far
    scenario,               \* how many steps of the two-participant scenario the run has made (-1: another run)
    input_code,             \* the code text under analysis
    input_language,         \* its LanguageType
    tools,                  \* what radon, bandit and pylint report for this code
    result,                 \* the CodeAnalysisResult the last analyzer call returned (a list of at most one)
    analysis_results,       \* the rows of the table analysis_results of the database, in insertion order
    response,               \* the HTTP response, if the last operation was a request (a list of at most one)
    request,                \* the request, if the last operation was one: its body and what it met
    ai_enabled,             \* AICodeAssistant.ai_enabled: an API key was configured
    call,                   \* the last call of a method of AICodeAssistant: its request and its outcome (a list of at most one)
    running                 \* per worker thread, the session operation or handler it is executing and where it stands in it

session_vars == <<collaboration_sessions, rooms, inbox, flask_session, clock, last,
                  nops, scenario>>

service_vars == <<analysis_results, response, request, ai_enabled, call, running>>

analysis_vars == <<input_code, input_language, tools, result, service_vars>>

vars == <<session_vars, analysis_vars>>

----------------------------------------------------------------------------
(* Bounds and input sets *)

MaxCalls == 4     \* direct calls of the session operations in one run
MaxEvents == 4    \* SocketIO events handled in one run
MaxMixed == 3     \* events and direct calls in one run of the two together

SessionIds == {"s1", "s2"}
Clients == {"p1", "p2", "p3"}
Codes == {"a=1", "a=2"}
InitialCodes == {"a=1"}                    \* code a create_session event carries
Languages == {"python", "javascript"}      \* members of LanguageType
RawLanguages == {"python", "cobol"}        \* language tags a create_session event carries
NoUser == "<absent>"
None == "None"

\* datetime.now() as a logical clock: every call returns a later value
Now(t) == t + 1

----------------------------------------------------------------------------
(* CollaborationSession and the session operations of CodeAssistant *)

CollaborationSession(session_id, participants, code, language, t1, t2, active) ==
    [session_id |-> session_id, participants |-> participants,
     language |-> language, code_content |-> code,
     created_at |-> t1, last_modified |-> t2, is_active |-> active]

\* list membership: user_id in session.participants
InList(x, list) == \E i \in 1..Len(list) : list[i] = x

\* create_collaboration_session that reuses the participants of a session it replaces
create_keeps_participants(store, session_id, initial_code, language, t1, t2) ==
    LET kept == IF session_id \in DOMAIN store
                THEN store[session_id].participants ELSE <<>>
        session == CollaborationSession(session_id, kept, initial_code, language,
                                        t1, t2, TRUE)
    IN [k \in DOMAIN store \cup {session_id} |->
            IF k = session_id THEN session ELSE store[k]]

\* create_collaboration_session that starts a new dict for every session
create_drops_others(store, session_id, initial_code, language, t1, t2) ==
    LET session == CollaborationSession(session_id, <<>>, initial_code, language,
                                        t1, t2, TRUE)
    IN [k \in {session_id} |-> session]

\* create_collaboration_session with is_active=False for a session it replaces
create_replaces_inactive(store, session_id, initial_code, language, t1, t2) ==
    LET session == CollaborationSession(session_id, <<>>, initial_code, language,
                                        t1, t2, session_id \notin DOMAIN store)
    IN [k \in DOMAIN store \cup {session_id} |->
            IF k = session_id THEN session ELSE store[k]]

\* the store after create_collaboration_session(session_id, initial_code, language);
\* t1 and t2 are the two datetime.now() values
create_collaboration_session(store, session_id, initial_code, language, t1, t2) ==
    LET session == CollaborationSession(session_id, <<>>, initial_code, language,
                                        t1, t2, TRUE)
    IN [k \in DOMAIN store \cup {session_id} |->
            IF k = session_id THEN session ELSE store[k]]

\* join_collaboration_session without the membership test
join_always_appends(store, session_id, user_id) ==
    IF session_id \in DOMAIN store
    THEN [store EXCEPT ![session_id].participants = Append(@, user_id)]
    ELSE store

\* join_collaboration_session that opens a session for an unknown identifier
join_creates_missing(store, session_id, user_id) ==
    IF session_id \in DOMAIN store
    THEN IF ~InList(user_id, store[session_id].participants)
         THEN [store EXCEPT ![session_id].participants = Append(@, user_id)]
         ELSE store
    ELSE [k \in DOMAIN store \cup {session_id} |->
            IF k = session_id
            THEN CollaborationSession(session_id, <<user_id>>, "", "python",
                                      0, 0, TRUE)
            ELSE store[k]]

\* the store after join_collaboration_session(session_id, user_id)
join_collaboration_session(store, session_id, user_id) ==
    IF session_id \in DOMAIN store
    THEN IF ~InList(user_id, store[session_id].participants)
         THEN [store EXCEPT ![session_id].participants = Append(@, user_id)]
         ELSE store
    ELSE store

\* what join_collaboration_session returns: the session object, or None
join_result(store, session_id) ==
    IF session_id \in DOMAIN store THEN "session" ELSE None

\* update_collaboration_code that keeps the content of a session that has some
update_keeps_content(store, session_id, new_code, user_id, t) ==
    IF session_id \in DOMAIN store
    THEN [store EXCEPT ![session_id].code_content =
                           IF @ = "a=1" THEN @ ELSE new_code,
                       ![session_id].last_modified = t]
    ELSE store

\* update_collaboration_code that accepts the edit of a participant only
update_checks_membership(store, session_id, new_code, user_id, t) ==
    IF session_id \in DOMAIN store /\ InList(user_id, store[session_id].participants)
    THEN [store EXCEPT ![session_id].code_content = new_code,
                       ![session_id].last_modified = t]
    ELSE store

\* update_collaboration_code that stores a new session object with the new code
update_stores_new_session(store, session_id, new_code, user_id, t) ==
    IF session_id \in DOMAIN store
    THEN [store EXCEPT ![session_id] =
              CollaborationSession(session_id, <<>>, new_code, @.language, t, t, TRUE)]
    ELSE store

\* the store after update_collaboration_code(session_id, new_code, user_id);
\* t is the datetime.now() value
update_collaboration_code(store, session_id, new_code, user_id, t) ==
    IF session_id \in DOMAIN store
    THEN [store EXCEPT ![session_id].code_content = new_code,
                       ![session_id].last_modified = t]
    ELSE store

\* what update_collaboration_code returns
update_result(store, session_id) == session_id \in DOMAIN store

\* 'active_sessions' of GET /api/status: len(ai_assistant.collaboration_sessions)
active_sessions(store) == Cardinality(DOMAIN store)

----------------------------------------------------------------------------
(* Records of what an operation did *)

\* the stored session under session_id, as a list of at most one element
Lookup(store, session_id) ==
    IF session_id \in DOMAIN store THEN <<store[session_id]>> ELSE <<>>

Outcome(op, client, session_id, user_id, code, ret, raised, before) ==
    [session_id |-> session_id, code |-> code, user_id |-> user_id, op |-> op,
     client |-> client, ret |-> ret, raised |-> raised, before |-> before]

Bool(b) == IF b THEN "True" ELSE "False"

Message(event, session_id, code, language, user_id, users) ==
    [session_id |-> session_id, code |-> code, language |-> language,
     user_id |-> user_id, event |-> event, users |-> users]

\* emit(event, payload) to each client of `to`
Deliver(box, to, msg) ==
    [c \in Clients |-> IF c \in to THEN Append(box[c], msg) ELSE box[c]]

Room(rs, name) == rs[name]

join_room(rs, name, client) == [rs EXCEPT ![name] = @ \cup {client}]

----------------------------------------------------------------------------
(* Direct calls of the session operations (the CodeAssistant API) *)

CreateSession(session_id, initial_code, language) ==
    /\ nops < MaxCalls
    /\ UNCHANGED analysis_vars
    /\ LET t1 == Now(clock)
           t2 == Now(t1)
       IN /\ collaboration_sessions' =
                 create_collaboration_session(collaboration_sessions, session_id,
                                              initial_code, language, t1, t2)
          /\ clock' = t2
    /\ last' = Outcome("create", "-", session_id, "-", initial_code, "session",
                       "none", Lookup(collaboration_sessions, session_id))
    /\ nops' = nops + 1
    /\ UNCHANGED <<rooms, inbox, flask_session, scenario>>

JoinSession(session_id, user_id) ==
    /\ nops < MaxCalls
    /\ UNCHANGED analysis_vars
    /\ collaboration_sessions' =
           join_collaboration_session(collaboration_sessions, session_id, user_id)
    /\ last' = Outcome("join", "-", session_id, user_id, "-",
                       join_result(collaboration_sessions, session_id), "none",
                       Lookup(collaboration_sessions, session_id))
    /\ nops' = nops + 1
    /\ UNCHANGED <<rooms, inbox, flask_session, clock, scenario>>

UpdateCode(session_id, new_code, user_id) ==
    /\ nops < MaxCalls
    /\ UNCHANGED analysis_vars
    /\ LET t == Now(clock)
       IN /\ collaboration_sessions' =
                 update_collaboration_code(collaboration_sessions, session_id,
                                           new_code, user_id, t)
          /\ clock' = IF update_result(collaboration_sessions, session_id)
                      THEN t ELSE clock
    /\ last' = Outcome("update", "-", session_id, user_id, new_code,
                       Bool(update_result(collaboration_sessions, session_id)),
                       "none", Lookup(collaboration_sessions, session_id))
    /\ nops' = nops + 1
    /\ UNCHANGED <<rooms, inbox, flask_session, scenario>>

----------------------------------------------------------------------------
(* The run of the two-participant scenario: create s1 with a=1, p1 joins,  *)
(* p2 joins, p1 sends the edit a=2                                         *)

Event(op, client, session_id, code) ==
    [session_id |-> session_id, code |-> code, op |-> op, client |-> client]

ScenarioRun ==
    << Event("create_session", "*", "s1", "a=1"),
       Event("join_session", "p1", "s1", "-"),
       Event("join_session", "p2", "s1", "-"),
       Event("code_change", "p1", "s1", "a=2") >>

Matches(step, ev) ==
    /\ step.op = ev.op
    /\ step.client \in {"*", ev.client}
    /\ step.session_id = ev.session_id
    /\ step.code = ev.code

Advance(k, ev) ==
    IF k >= 0 /\ k < Len(ScenarioRun) /\ Matches(ScenarioRun[k + 1], ev)
    THEN k + 1 ELSE -1

----------------------------------------------------------------------------
(* The SocketIO handlers *)

\* session.get('user_id', default)
session_get_user_id(client, default) ==
    IF flask_session[client] # NoUser THEN flask_session[client] ELSE default

\* The default argument of handle_join_session's session.get, evaluated before
\* the call: f'user_{len(sessions.get(session_id, {}).get("participants", []))}'.
\* For a stored session, sessions.get returns the CollaborationSession object,
\* which has no attribute 'get'.
join_default_user_id(store, session_id) ==
    IF session_id \in DOMAIN store THEN "AttributeError" ELSE "user_0"

handle_create_session(client, session_id, code, language) ==
    /\ nops < MaxEvents
    /\ UNCHANGED analysis_vars
    /\ nops' = nops + 1
    /\ UNCHANGED flask_session
    /\ IF language \notin Languages
       THEN \* LanguageType(data['language']) raises ValueError
            /\ last' = Outcome("create_session", client, session_id, "-", code,
                               "-", "ValueError",
                               Lookup(collaboration_sessions, session_id))
            /\ scenario' = -1
            /\ UNCHANGED <<collaboration_sessions, rooms, inbox, clock>>
       ELSE /\ LET t1 == Now(clock)
                   t2 == Now(t1)
               IN /\ collaboration_sessions' =
                         create_collaboration_session(collaboration_sessions,
                                                      session_id, code, language,
                                                      t1, t2)
                  /\ clock' = t2
            /\ rooms' = join_room(rooms, session_id, client)
            /\ inbox' = Deliver(inbox, {client},
                                Message("session_created", session_id, "-", "-",
                                        "-", <<>>))
            /\ last' = Outcome("create_session", client, session_id, "-", code,
                               "session", "none",
                               Lookup(collaboration_sessions, session_id))
            /\ scenario' = Advance(scenario,
                                   Event("create_session", client, session_id, code))

handle_join_session(client, session_id) ==
    /\ nops < MaxEvents
    /\ UNCHANGED analysis_vars
    /\ nops' = nops + 1
    /\ scenario' = Advance(scenario, Event("join_session", client, session_id, "-"))
    /\ UNCHANGED <<flask_session, clock>>
    /\ LET default == join_default_user_id(collaboration_sessions, session_id)
       IN IF default = "AttributeError"
          THEN /\ last' = Outcome("join_session", client, session_id, "-", "-",
                                  "-", "AttributeError",
                                  Lookup(collaboration_sessions, session_id))
               /\ UNCHANGED <<collaboration_sessions, rooms, inbox>>
          ELSE LET user_id == session_get_user_id(client, default)
                   store == join_collaboration_session(collaboration_sessions,
                                                       session_id, user_id)
                   session_obj == join_result(collaboration_sessions, session_id)
               IN /\ collaboration_sessions' = store
                  /\ last' = Outcome("join_session", client, session_id, user_id,
                                     "-", session_obj, "none",
                                     Lookup(collaboration_sessions, session_id))
                  /\ IF session_obj # None
                     THEN LET joined == join_room(rooms, session_id, client)
                              box == Deliver(inbox, {client},
                                        Message("session_joined", session_id,
                                                store[session_id].code_content,
                                                store[session_id].language,
                                                "-", <<>>))
                          IN /\ rooms' = joined
                             /\ inbox' = Deliver(box, Room(joined, session_id),
                                            Message("user_joined", session_id, "-",
                                                    "-", user_id,
                                                    store[session_id].participants))
                     ELSE /\ inbox' = Deliver(inbox, {client},
                                         Message("session_error", "-", "-", "-",
                                                 "-", <<>>))
                          /\ UNCHANGED rooms

\* the clients emit(..., room=session_id, include_self=False) reaches
code_updated_recipients(rs, session_id, client) == Room(rs, session_id) \ {client}

handle_code_change(client, session_id, new_code) ==
    /\ nops < MaxEvents
    /\ UNCHANGED analysis_vars
    /\ nops' = nops + 1
    /\ scenario' = Advance(scenario,
                           Event("code_change", client, session_id, new_code))
    /\ UNCHANGED <<flask_session, rooms>>
    /\ LET user_id == session_get_user_id(client, "anonymous")
           ok == update_result(collaboration_sessions, session_id)
           t == Now(clock)
       IN /\ collaboration_sessions' =
                 update_collaboration_code(collaboration_sessions, session_id,
                                           new_code, user_id, t)
          /\ clock' = IF ok THEN t ELSE clock
          /\ last' = Outcome("code_change", client, session_id, user_id, new_code,
                             Bool(ok), "none",
                             Lookup(collaboration_sessions, session_id))
          /\ inbox' = IF ok
                      THEN Deliver(inbox,
                                   code_updated_recipients(rooms, session_id, client),
                                   Message("code_updated", session_id, new_code,
                                           "-", user_id, <<>>))
                      ELSE inbox

----------------------------------------------------------------------------
(* Session operations and handlers run by concurrent worker threads. The   *)
(* code takes no lock, so the statements of two invocations interleave; a  *)
(* step is one read or one write of the shared session object. For a       *)
(* stored session the methods work on the object the dict refers to, and   *)
(* nothing replaces that object while they run.                            *)

MaxSetup == 1     \* create_session events handled before the workers start

Workers == {"w1", "w2"}

\* the operations a worker runs: the two methods called directly, and the
\* code_change handler
WorkerOps == {"join", "update", "code_change"}

Invocation_(op, client, session_id, user_id, code, ret, before, pc, started) ==
    [session_id |-> session_id, code |-> code, user_id |-> user_id, op |-> op,
     client |-> client, ret |-> ret, before |-> before, pc |-> pc,
     started |-> started]

Idle == Invocation_("-", "-", "-", "-", "-", "-", <<>>, "idle", 0)

At(w, pc) == running[w].pc = pc

Goto(w, pc, ret) == running' = [running EXCEPT ![w].pc = pc, ![w].ret = ret]

\* a create_session event handled before any worker has started
Setup(client, session_id, code, language) ==
    /\ nops < MaxSetup
    /\ \A w \in Workers : At(w, "idle")
    /\ handle_create_session(client, session_id, code, language)

\* Begin with a code_change handler that emits without calling update
Begin_emit_unconditionally(w, op, client, session_id, code) ==
    /\ At(w, "idle")
    /\ LET user_id == IF op = "code_change"
                      THEN session_get_user_id(client, "anonymous") ELSE client
           found == session_id \in DOMAIN collaboration_sessions
           pc == IF op = "code_change" THEN "emit"
                 ELSE IF ~found THEN "done" ELSE IF op = "join" THEN "test" ELSE "content"
           ret == IF found THEN "-" ELSE IF op = "join" THEN None ELSE "False"
       IN running' = [running EXCEPT ![w] =
              Invocation_(op, client, session_id, user_id, code, ret,
                          Lookup(collaboration_sessions, session_id), pc, nops + 1)]
    /\ nops' = nops + 1
    /\ UNCHANGED <<collaboration_sessions, rooms, inbox, flask_session, clock, last,
                   scenario>>
    /\ UNCHANGED <<input_code, input_language, tools, result, analysis_results,
                   response, request, ai_enabled, call>>

\* The worker enters the operation and evaluates
\* 'if session_id in self.collaboration_sessions'; for a session that is
\* stored it then holds the session object.
Begin(w, op, client, session_id, code) ==
    /\ At(w, "idle")
    /\ LET user_id == IF op = "code_change"
                      THEN session_get_user_id(client, "anonymous") ELSE client
           found == session_id \in DOMAIN collaboration_sessions
           pc == IF ~found THEN "done" ELSE IF op = "join" THEN "test" ELSE "content"
           ret == IF found THEN "-" ELSE IF op = "join" THEN None ELSE "False"
       IN running' = [running EXCEPT ![w] =
              Invocation_(op, client, session_id, user_id, code, ret,
                          Lookup(collaboration_sessions, session_id), pc, nops + 1)]
    /\ nops' = nops + 1
    /\ UNCHANGED <<collaboration_sessions, rooms, inbox, flask_session, clock, last,
                   scenario>>
    /\ UNCHANGED <<input_code, input_language, tools, result, analysis_results,
                   response, request, ai_enabled, call>>

\* join: 'if user_id not in session.participants'
JoinTest(w) ==
    /\ At(w, "test")
    /\ IF InList(running[w].user_id,
                 collaboration_sessions[running[w].session_id].participants)
       THEN Goto(w, "done", "session")
       ELSE Goto(w, "append", "-")
    /\ UNCHANGED <<session_vars, input_code, input_language, tools, result,
                   analysis_results, response, request, ai_enabled, call>>

\* join: session.participants.append(user_id)
JoinAppend(w) ==
    /\ At(w, "append")
    /\ collaboration_sessions' =
           [collaboration_sessions EXCEPT ![running[w].session_id].participants =
                Append(@, running[w].user_id)]
    /\ Goto(w, "done", "session")
    /\ UNCHANGED <<rooms, inbox, flask_session, clock, last, nops, scenario>>
    /\ UNCHANGED <<input_code, input_language, tools, result, analysis_results,
                   response, request, ai_enabled, call>>

\* update: session.code_content = new_code
SetContent(w) ==
    /\ At(w, "content")
    /\ collaboration_sessions' =
           [collaboration_sessions EXCEPT ![running[w].session_id].code_content =
                running[w].code]
    /\ Goto(w, "modified", "-")
    /\ UNCHANGED <<rooms, inbox, flask_session, clock, last, nops, scenario>>
    /\ UNCHANGED <<input_code, input_language, tools, result, analysis_results,
                   response, request, ai_enabled, call>>

\* update: session.last_modified = datetime.now(); return True
SetModified(w) ==
    /\ At(w, "modified")
    /\ collaboration_sessions' =
           [collaboration_sessions EXCEPT ![running[w].session_id].last_modified =
                Now(clock)]
    /\ clock' = Now(clock)
    /\ Goto(w, IF running[w].op = "code_change" THEN "emit" ELSE "done", "True")
    /\ UNCHANGED <<rooms, inbox, flask_session, last, nops, scenario>>
    /\ UNCHANGED <<input_code, input_language, tools, result, analysis_results,
                   response, request, ai_enabled, call>>

\* code_change, update returned True: emit('code_updated', ..., room=session_id,
\* include_self=False)
Emit(w) ==
    /\ At(w, "emit")
    /\ inbox' = Deliver(inbox,
                        code_updated_recipients(rooms, running[w].session_id,
                                                running[w].client),
                        Message("code_updated", running[w].session_id,
                                running[w].code, "-", running[w].user_id, <<>>))
    /\ Goto(w, "done", "True")
    /\ UNCHANGED <<collaboration_sessions, rooms, flask_session, clock, last, nops,
                   scenario>>
    /\ UNCHANGED <<input_code, input_language, tools, result, analysis_results,
                   response, request, ai_enabled, call>>

----------------------------------------------------------------------------
(* deactivate(session_id) of the design contract: the program has no such  *)
(* operation; it clears the is_active field and nothing else               *)

deactivate(store, session_id) ==
    IF session_id \in DOMAIN store
    THEN [store EXCEPT ![session_id].is_active = FALSE]
    ELSE store

Deactivate(session_id) ==
    /\ nops < MaxCalls
    /\ UNCHANGED analysis_vars
    /\ collaboration_sessions' = deactivate(collaboration_sessions, session_id)
    /\ last' = Outcome("deactivate", "-", session_id, "-", "-", "-", "none",
                       Lookup(collaboration_sessions, session_id))
    /\ nops' = nops + 1
    /\ UNCHANGED <<rooms, inbox, flask_session, clock, scenario>>

----------------------------------------------------------------------------
(* Strings are sequences of one-character strings; the str methods the      *)
(* analyzers use                                                            *)

NL == "\n"

\* the characters str.strip() removes
Whitespace == {" ", "\t", "\n", "\r", "\f"}

UpperToLower ==
    [A |-> "a", B |-> "b", C |-> "c", D |-> "d", E |-> "e", F |-> "f", G |-> "g", H |-> "h", I |-> "i", J |-> "j", K |-> "k", L |-> "l", M |-> "m",
     N |-> "n", O |-> "o", P |-> "p", Q |-> "q", R |-> "r", S |-> "s", T |-> "t", U |-> "u", V |-> "v", W |-> "w", X |-> "x", Y |-> "y", Z |-> "z"]


\* s.lower()
lower(s) == [i \in 1..Len(s) |-> IF s[i] \in DOMAIN UpperToLower
                                 THEN UpperToLower[s[i]] ELSE s[i]]

\* sub in s
contains(sub, s) ==
    \E i \in 0..(Len(s) - Len(sub)) : \A j \in 1..Len(sub) : s[i + j] = sub[j]

\* s.split(sep), sep one character
split(s, sep) ==
    LET P == {i \in 1..Len(s) : s[i] = sep}
        n == Cardinality(P) + 1
        pos(k) == IF k = 0 THEN 0
                  ELSE IF k = n THEN Len(s) + 1
                  ELSE CHOOSE p \in P : Cardinality({q \in P : q < p}) = k - 1
    IN [k \in 1..n |-> SubSeq(s, pos(k - 1) + 1, pos(k) - 1)]

\* s.strip()
strip(s) ==
    LET K == {i \in 1..Len(s) : s[i] \notin Whitespace}
    IN IF K = {} THEN <<>>
       ELSE SubSeq(s, CHOOSE i \in K : \A j \in K : i <= j,
                      CHOOSE i \in K : \A j \in K : j <= i)

RECURSIVE join(_, _)
\* sep.join(parts)
join(sep, parts) ==
    IF parts = <<>> THEN <<>>
    ELSE IF Len(parts) = 1 THEN parts[1]
    ELSE parts[1] \o sep \o join(sep, Tail(parts))

\* max(0, x)
Max0(x) == IF x > 0 THEN x ELSE 0

\* a score: the number num / den (an int has den = 1; the structural
\* complexity score is a float, 100 - 5 * total / count)
Score(num, den) == [num |-> num, den |-> den]

----------------------------------------------------------------------------
(* CodeAnalyzer *)

CodeAnalysisResult(language, analysis_type, score, issues, suggestions, metrics) ==
    [language |-> language, analysis_type |-> analysis_type,
     score |-> score, issues |-> issues, suggestions |-> suggestions,
     metrics |-> metrics, file_path |-> "<string>"]

complexity_indicators ==
    << <<"i", "f">>,
       <<"e", "l", "s", "e">>,
       <<"f", "o", "r">>,
       <<"w", "h", "i", "l", "e">>,
       <<"s", "w", "i", "t", "c", "h">>,
       <<"c", "a", "s", "e">>,
       <<"t", "r", "y">>,
       <<"c", "a", "t", "c", "h">> >>

security_patterns ==
    << [type |-> "sql_injection", pattern |-> <<"S", "E", "L", "E", "C", "T">>],
       [type |-> "sql_injection", pattern |-> <<"I", "N", "S", "E", "R", "T">>],
       [type |-> "sql_injection", pattern |-> <<"U", "P", "D", "A", "T", "E">>],
       [type |-> "sql_injection", pattern |-> <<"D", "E", "L", "E", "T", "E">>],
       [type |-> "xss", pattern |-> <<"i", "n", "n", "e", "r", "H", "T", "M", "L">>],
       [type |-> "xss", pattern |-> <<"d", "o", "c", "u", "m", "e", "n", "t", ".", "w", "r", "i", "t", "e">>],
       [type |-> "xss", pattern |-> <<"e", "v", "a", "l">>],
       [type |-> "hardcoded_secrets", pattern |-> <<"p", "a", "s", "s", "w", "o", "r", "d">>],
       [type |-> "hardcoded_secrets", pattern |-> <<"a", "p", "i", "_", "k", "e", "y">>],
       [type |-> "hardcoded_secrets", pattern |-> <<"s", "e", "c", "r", "e", "t">>],
       [type |-> "hardcoded_secrets", pattern |-> <<"t", "o", "k", "e", "n">>],
       [type |-> "unsafe_functions", pattern |-> <<"e", "x", "e", "c">>],
       [type |-> "unsafe_functions", pattern |-> <<"s", "y", "s", "t", "e", "m">>],
       [type |-> "unsafe_functions", pattern |-> <<"s", "h", "e", "l", "l", "_", "e", "x", "e", "c">>] >>


\* max(0, 100 - complexity_count * 2) without the clamp
complexity_score_unclamped(complexity_count) == Score(100 - complexity_count * 2, 1)

basic_complexity_score(complexity_count) == Score(Max0(100 - complexity_count * 2), 1)

\* _basic_complexity_analysis with the comparison complexity_count >= 10
basic_complexity_analysis_inclusive(code, language) ==
    LET lines == split(code, NL)
        non_empty_lines == SelectSeq(lines, LAMBDA line : strip(line) # <<>>)
        lowered == [i \in 1..Len(non_empty_lines) |-> lower(non_empty_lines[i])]
        complexity_count ==
            Cardinality({p \in (1..Len(lowered)) \X (1..Len(complexity_indicators)) :
                            contains(complexity_indicators[p[2]], lowered[p[1]])})
    IN CodeAnalysisResult(language, "complexity",
           basic_complexity_score(complexity_count),
           <<>>,
           IF complexity_count >= 10
           THEN << <<"Consider simplifying complex logic", complexity_count>> >>
           ELSE <<>>,
           [complexity_indicators |-> complexity_count,
            lines_of_code |-> Len(non_empty_lines)])

basic_complexity_analysis(code, language) ==
    LET lines == split(code, NL)
        non_empty_lines == SelectSeq(lines, LAMBDA line : strip(line) # <<>>)
        lowered == [i \in 1..Len(non_empty_lines) |-> lower(non_empty_lines[i])]
        complexity_count ==
            Cardinality({p \in (1..Len(lowered)) \X (1..Len(complexity_indicators)) :
                            contains(complexity_indicators[p[2]], lowered[p[1]])})
    IN CodeAnalysisResult(language, "complexity",
           basic_complexity_score(complexity_count),
           <<>>,
           IF complexity_count > 10
           THEN << <<"Consider simplifying complex logic", complexity_count>> >>
           ELSE <<>>,
           [complexity_indicators |-> complexity_count,
            lines_of_code |-> Len(non_empty_lines)])

\* max(0, 100 - len(security_issues) * 10) without the clamp
security_score_unclamped(n) == Score(100 - n * 10, 1)

basic_security_score(n) == Score(Max0(100 - n * 10), 1)

\* _basic_security_analysis with the test "pattern in code", case kept
basic_security_analysis_case_sensitive(code, language) ==
    LET found == SelectSeq(security_patterns,
                           LAMBDA p : contains(p.pattern, code))
        security_issues == [i \in 1..Len(found) |->
                               [type |-> found[i].type, pattern |-> found[i].pattern,
                                severity |-> "medium"]]
        suggestions == [i \in 1..Len(found) |->
                           <<"Potential risk", found[i].type, found[i].pattern>>]
    IN CodeAnalysisResult(language, "security",
           basic_security_score(Len(security_issues)),
           security_issues, suggestions,
           [potential_issues |-> Len(security_issues)])

basic_security_analysis(code, language) ==
    LET lowered == lower(code)
        found == SelectSeq(security_patterns,
                           LAMBDA p : contains(lower(p.pattern), lowered))
        security_issues == [i \in 1..Len(found) |->
                               [type |-> found[i].type, pattern |-> found[i].pattern,
                                severity |-> "medium"]]
        suggestions == [i \in 1..Len(found) |->
                           <<"Potential risk", found[i].type, found[i].pattern>>]
    IN CodeAnalysisResult(language, "security",
           basic_security_score(Len(security_issues)),
           security_issues, suggestions,
           [potential_issues |-> Len(security_issues)])

\* max(0, 100 - len(issues) * 5) without the clamp
style_score_unclamped(n) == Score(100 - n * 5, 1)

basic_style_score(n) == Score(Max0(100 - n * 5), 1)

\* _basic_style_analysis with the comparison len(line) >= 120
basic_style_analysis_inclusive(code, language) ==
    LET lines == split(code, NL)
        numbers == [i \in 1..Len(lines) |-> i]
        long == SelectSeq(numbers, LAMBDA i : Len(lines[i]) >= 120)
        issues == [k \in 1..Len(long) |->
                      [type |-> "line_too_long", line |-> long[k],
                       severity |-> "low", length |-> Len(lines[long[k]])]]
        suggestions == [k \in 1..Len(long) |->
                           <<"Line is too long", long[k], Len(lines[long[k]])>>]
    IN CodeAnalysisResult(language, "style", basic_style_score(Len(issues)),
                          issues, suggestions, [style_issues |-> Len(issues)])

basic_style_analysis(code, language) ==
    LET lines == split(code, NL)
        numbers == [i \in 1..Len(lines) |-> i]
        long == SelectSeq(numbers, LAMBDA i : Len(lines[i]) > 120)
        issues == [k \in 1..Len(long) |->
                      [type |-> "line_too_long", line |-> long[k],
                       severity |-> "low", length |-> Len(lines[long[k]])]]
        suggestions == [k \in 1..Len(long) |->
                           <<"Line is too long", long[k], Len(lines[long[k]])>>]
    IN CodeAnalysisResult(language, "style", basic_style_score(Len(issues)),
                          issues, suggestions, [style_issues |-> Len(issues)])

\* max(0, 100 - avg_complexity * 5) without the clamp
structural_score_unclamped(total_complexity, count) ==
    IF count = 0 THEN Score(100, 1)
    ELSE Score(100 * count - 5 * total_complexity, count)

\* max(0, 100 - avg_complexity * 5), avg_complexity = total / count, or 0 for
\* no blocks
structural_complexity_score(total_complexity, count) ==
    IF count = 0 THEN Score(Max0(100 - 0 * 5), 1)
    ELSE Score(Max0(100 * count - 5 * total_complexity), count)

RECURSIVE total_of(_)
total_of(blocks) ==
    IF blocks = <<>> THEN 0 ELSE blocks[1].complexity + total_of(Tail(blocks))

\* radon: what ast.parse / radon report for the code (ok = FALSE: one of them raised)
analyze_complexity(code, language, radon) ==
    IF language # "python" THEN basic_complexity_analysis(code, language)
    ELSE IF ~radon.ok THEN basic_complexity_analysis(code, language)
    ELSE LET complexity_blocks == radon.blocks
             complex == SelectSeq(complexity_blocks, LAMBDA b : b.complexity > 10)
             issues == [i \in 1..Len(complex) |->
                           [type |-> "high_complexity", line |-> complex[i].lineno,
                            severity |-> IF complex[i].complexity > 15
                                         THEN "high" ELSE "medium",
                            complexity |-> complex[i].complexity,
                            function |-> complex[i].name]]
             suggestions == [i \in 1..Len(complex) |->
                                <<"Consider refactoring", complex[i].name,
                                  complex[i].complexity>>]
             total_complexity == total_of(complexity_blocks)
         IN CodeAnalysisResult(language, "complexity",
                structural_complexity_score(total_complexity, Len(complexity_blocks)),
                issues, suggestions,
                [total_complexity |-> total_complexity,
                 functions_count |-> Len(complexity_blocks),
                 raw |-> radon.raw])

\* max(0, 100 - (high * 20 + medium * 10 + low * 5)) without the clamp
bandit_score_unclamped(high, medium, low) ==
    Score(100 - (high * 20 + medium * 10 + low * 5), 1)

bandit_score(high, medium, low) ==
    Score(Max0(100 - (high * 20 + medium * 10 + low * 5)), 1)

\* bandit: what the bandit run reports for the code (ok = FALSE: it raised)
analyze_security(code, language, bandit) ==
    IF language # "python" THEN basic_security_analysis(code, language)
    ELSE IF ~bandit.ok THEN basic_security_analysis(code, language)
    ELSE LET found == bandit.findings
             issues == [i \in 1..Len(found) |->
                           [type |-> "security_issue", line |-> found[i].lineno,
                            severity |-> found[i].severity,
                            test_id |-> found[i].test_id,
                            confidence |-> found[i].confidence,
                            text |-> found[i].text]]
             suggestions == [i \in 1..Len(found) |->
                                <<"Security issue at line", found[i].lineno,
                                  found[i].text>>]
             high_severity == Len(SelectSeq(issues, LAMBDA i : i.severity = "HIGH"))
             medium_severity == Len(SelectSeq(issues, LAMBDA i : i.severity = "MEDIUM"))
             low_severity == Len(SelectSeq(issues, LAMBDA i : i.severity = "LOW"))
         IN CodeAnalysisResult(language, "security",
                bandit_score(high_severity, medium_severity, low_severity),
                issues, suggestions,
                [high_severity |-> high_severity, medium_severity |-> medium_severity,
                 low_severity |-> low_severity, total_issues |-> Len(issues),
                 lines_analyzed |-> Len(split(code, NL))])

pylint_keywords == << <<"e", "r", "r", "o", "r">>, <<"w", "a", "r", "n", "i", "n", "g">>, <<"c", "o", "n", "v", "e", "n", "t", "i", "o", "n">> >>


\* max(0, 100 - len(issues) * 2) without the clamp
pylint_score_unclamped(n) == Score(100 - n * 2, 1)

pylint_score(n) == Score(Max0(100 - n * 2), 1)

\* the pylint report lines analyze_style turns into issues
reported(line) ==
    /\ contains(<<":">>, line)
    /\ \E k \in 1..Len(pylint_keywords) : contains(pylint_keywords[k], lower(line))
    /\ Len(split(line, ":")) >= 4

\* analyze_style with no except clause: the failure of the lint run reaches the
\* caller
analyze_style_uncaught(code, language, pylint) ==
    IF language # "python" THEN basic_style_analysis(code, language)
    ELSE CodeAnalysisResult(language, "Exception", Score(0, 1), <<>>, <<>>, <<>>)

\* pylint: what the pylint run writes for the code (ok = FALSE: it raised)
analyze_style(code, language, pylint) ==
    IF language # "python" THEN basic_style_analysis(code, language)
    ELSE IF ~pylint.ok THEN basic_style_analysis(code, language)
    ELSE LET hits == SelectSeq(split(pylint.output, NL), reported)
             issues == [i \in 1..Len(hits) |->
                           LET parts == split(hits[i], ":")
                           IN [type |-> "style_issue", line |-> strip(parts[2]),
                               severity |-> "medium",
                               message |-> strip(join(<<":">>,
                                                      SubSeq(parts, 4, Len(parts))))]]
             suggestions == [i \in 1..Len(issues) |->
                                <<"Line", issues[i].line, issues[i].message>>]
         IN CodeAnalysisResult(language, "style", pylint_score(Len(issues)),
                issues, suggestions,
                [total_issues |-> Len(issues),
                 lines_analyzed |-> Len(split(code, NL)),
                 pylint_score |-> pylint_score(Len(issues))])

----------------------------------------------------------------------------
(* Analysis inputs: code texts, and what the external tools report *)

MaxRepeat == 21        \* repetitions of one line in a code text
MaxBlocks == 2         \* function blocks radon reports
MaxFindings == 6       \* findings of one severity bandit reports
MaxPylintLines == 51   \* lines of a pylint report

AnalysisLanguages == {"python", "javascript"}

Rep(x, n) == [i \in 1..n |-> x]

BlankLine ==
    <<" ", " ">>

PlainLine ==
    <<"x", " ", "=", " ", "1">>

BranchLine ==
    <<"i", "f", " ", "e", "l", "s", "e", " ", "f", "o", "r", " ", "w", "h",
    "i", "l", "e", " ", "s", "w", "i", "t", "c", "h", " ", "c", "a", "s",
    "e", " ", "t", "r", "y", " ", "c", "a", "t", "c", "h">>

ElifLine ==
    <<"e", "l", "i", "f", " ", "o", "k", ":", " ", "f", "o", "r", "m", "a",
    "t", "(", "x", ")">>

\* if (a) x(); else if (b) y(); else z();
ChainLine ==
    <<"i", "f", " ", "(", "a", ")", " ", "x", "(", ")", ";", " ", "e", "l",
      "s", "e", " ", "i", "f", " ", "(", "b", ")", " ", "y", "(", ")", ";",
      " ", "e", "l", "s", "e", " ", "z", "(", ")", ";">>

SecretLine ==
    <<"P", "a", "s", "s", "w", "o", "r", "d", " ", "=", " ", "E", "V", "A",
    "L", "(", "t", "o", "k", "e", "n", ")">>

RiskLine ==
    <<"S", "E", "L", "E", "C", "T", " ", "I", "N", "S", "E", "R", "T", " ",
    "U", "P", "D", "A", "T", "E", " ", "D", "E", "L", "E", "T", "E", " ",
    "i", "n", "n", "e", "r", "H", "T", "M", "L", " ", "d", "o", "c", "u",
    "m", "e", "n", "t", ".", "w", "r", "i", "t", "e", " ", "e", "v", "a",
    "l", " ", "p", "a", "s", "s", "w", "o", "r", "d", " ", "a", "p", "i",
    "_", "k", "e", "y", " ", "s", "e", "c", "r", "e", "t", " ", "t", "o",
    "k", "e", "n", " ", "s", "y", "s", "t", "e", "m", " ", "s", "h", "e",
    "l", "l", "_", "e", "x", "e", "c">>

LongLine == Rep("x", 121)

FullLine == Rep("x", 120)

LineMenu == {BlankLine, PlainLine, BranchLine, ElifLine, ChainLine, SecretLine,
             RiskLine, LongLine, FullLine}

\* the text of the lines, one per line
CodeOf(lines) == join(<<NL>>, lines)

\* one line repeated, and every text of two lines
CodeInputs ==
    {CodeOf(Rep(l, n)) : l \in LineMenu, n \in 0..MaxRepeat}
        \cup {CodeOf(<<l1, l2>>) : l1 \in LineMenu, l2 \in LineMenu}

PythonCodes == {CodeOf(<<PlainLine, PlainLine>>)}

ComplexityValues == {1, 11, 16, 45}

RawMetrics == [loc |-> 2, lloc |-> 2, sloc |-> 2, comments |-> 0, multi |-> 0,
               blank |-> 0]

RadonFails == [ok |-> FALSE, blocks |-> <<>>, raw |-> RawMetrics]

RadonInputs ==
    {[ok |-> TRUE,
      blocks |-> [i \in 1..Len(cs) |->
                     [name |-> "f", complexity |-> cs[i], lineno |-> i]],
      raw |-> RawMetrics] :
        cs \in UNION {[1..n -> ComplexityValues] : n \in 0..MaxBlocks}}

Finding(severity) ==
    [severity |-> severity, lineno |-> 1, test_id |-> "B000",
     confidence |-> "HIGH", text |-> "finding"]

BanditFails == [ok |-> FALSE, findings |-> <<>>]

BanditInputs ==
    {[ok |-> TRUE,
      findings |-> Rep(Finding("HIGH"), h) \o Rep(Finding("MEDIUM"), m)
                       \o Rep(Finding("LOW"), l)] :
        h \in 0..MaxFindings, m \in 0..MaxFindings, l \in 0..MaxFindings}

ReportedLine ==
    <<"f", ".", "p", "y", ":", "7", ":", "0", ":", " ", "W", "1", ":", " ",
    "b", "a", "d", ":", "n", "a", "m", "e", " ", "(", "w", "a", "r", "n",
    "i", "n", "g", ")">>

ShortLine ==
    <<"f", ".", "p", "y", ":", "7", ":", " ", "e", "r", "r", "o", "r">>

OtherLine ==
    <<"f", ".", "p", "y", ":", "7", ":", "0", ":", " ", "C", "1", ":", " ",
    "n", "o", " ", "d", "o", "c", "s", "t", "r", "i", "n", "g">>

HeaderLine ==
    <<"*", "*", "*", " ", "M", "o", "d", "u", "l", "e", " ", "f">>

PylintMenu == {ReportedLine, ShortLine, OtherLine, HeaderLine}

PylintFails == [ok |-> FALSE, output |-> <<>>]

PylintInputs ==
    {[ok |-> TRUE, output |-> CodeOf(<<HeaderLine>> \o Rep(l, n))] :
        l \in PylintMenu, n \in 0..MaxPylintLines}

Tools(radon, bandit, pylint) ==
    [radon |-> radon, bandit |-> bandit, pylint |-> pylint]

\* no tool works: every analysis takes its fallback
FailingTools == Tools(RadonFails, BanditFails, PylintFails)

\* every tool works: radon finds one complex block, bandit one finding of high
\* severity, pylint one line it reports
WorkingTools ==
    Tools([ok |-> TRUE,
           blocks |-> <<[name |-> "f", complexity |-> 11, lineno |-> 1]>>,
           raw |-> RawMetrics],
          [ok |-> TRUE, findings |-> <<Finding("HIGH")>>],
          [ok |-> TRUE, output |-> CodeOf(<<HeaderLine, ReportedLine>>)])

----------------------------------------------------------------------------
(* Calls of the analyzers *)

AnalyzeComplexity ==
    /\ result' = <<analyze_complexity(input_code, input_language, tools.radon)>>
    /\ UNCHANGED <<input_code, input_language, tools, service_vars>>
    /\ UNCHANGED session_vars

AnalyzeSecurity ==
    /\ result' = <<analyze_security(input_code, input_language, tools.bandit)>>
    /\ UNCHANGED <<input_code, input_language, tools, service_vars>>
    /\ UNCHANGED session_vars

AnalyzeStyle ==
    /\ result' = <<analyze_style(input_code, input_language, tools.pylint)>>
    /\ UNCHANGED <<input_code, input_language, tools, service_vars>>
    /\ UNCHANGED session_vars

----------------------------------------------------------------------------
(* DatabaseManager: the table analysis_results *)

RECURSIVE gcd(_, _)
gcd(a, b) == IF b = 0 THEN a ELSE gcd(b, a % b)

\* a column of type REAL holds the number bound to it as a float, whether an
\* int or a float was bound: the value in lowest terms
real(score) ==
    LET g == gcd(score.num, score.den)
    IN Score(score.num \div g, score.den \div g)

\* json.dumps of a dict: the text of a JSON object, its name/value members
json_dumps_dict(d) == [json |-> "object", members |-> {<<k, d[k]>> : k \in DOMAIN d}]

\* a lossy variant of json_dumps_dicts: the last object is not written
json_dumps_dicts_truncated(l) ==
    [json |-> "array", items |-> [i \in 1..(Len(l) - 1) |-> json_dumps_dict(l[i])]]

\* json.dumps of a list of dicts: the text of a JSON array of objects
json_dumps_dicts(l) ==
    [json |-> "array", items |-> [i \in 1..Len(l) |-> json_dumps_dict(l[i])]]

\* json.dumps of a list of strings: the text of a JSON array of strings
json_dumps_strings(l) == [json |-> "array", items |-> l]

\* INSERT INTO analysis_results: the row gets the next id; the timestamp of the
\* result is not among the columns written
save_analysis_result(table, r) ==
    Append(table,
           [language |-> r.language, analysis_type |-> r.analysis_type,
            score |-> real(r.score), issues |-> json_dumps_dicts(r.issues),
            suggestions |-> json_dumps_strings(r.suggestions), metrics |-> json_dumps_dict(r.metrics),
            file_path |-> r.file_path,
            id |-> Len(table) + 1])

\* Reading a row back. The code never reads analysis_results; the read is the
\* one the design names: the row's columns, the JSON texts parsed by json.loads.
json_loads_dict(t) ==
    [k \in {m[1] : m \in t.members} |-> (CHOOSE m \in t.members : m[1] = k)[2]]

json_loads_dicts(t) == [i \in 1..Len(t.items) |-> json_loads_dict(t.items[i])]

json_loads_strings(t) == t.items

load_analysis_result(row) ==
    [score |-> row.score, issues |-> json_loads_dicts(row.issues),
     suggestions |-> json_loads_strings(row.suggestions)]

----------------------------------------------------------------------------
(* POST /api/analyze-code *)

MaxRequests == 2      \* requests handled in one run

\* the values of the members of LanguageType
LanguageType ==
    {"python", "javascript", "typescript", "java", "cpp", "csharp", "go", "rust",
     "php", "ruby", "swift", "kotlin", "scala", "r", "sql", "html", "css"}

\* the code texts and language tags requests carry
EvalLine == <<"e", "v", "a", "l", "(", "x", ")">>
RequestCodes == {CodeOf(<<PlainLine>>), CodeOf(<<EvalLine, PlainLine>>)}
RequestTags == {"python", "javascript", "cobol"}

\* request bodies: nothing, no 'code', 'code' alone, 'code' and 'language'
RequestBodies ==
    {<<>>}
        \cup {[language |-> l] : l \in RequestTags}
        \cup {[code |-> c] : c \in RequestCodes}
        \cup {[code |-> c, language |-> l] : c \in RequestCodes, l \in RequestTags}

\* what the tools report for a code text: the run's report for input_code, and a
\* failure for any other text
report(code) == IF code = input_code THEN tools ELSE FailingTools

Response(status_code, body) == [status_code |-> status_code, body |-> body]

\* the fields of CodeAnalysisResult declared with an Enum type: asdict keeps the
\* members, and the JSON encoder of flask has no encoding for an Enum
EnumFields == {"language", "analysis_type"}

\* jsonify of the success body
jsonify(body) ==
    IF \E k \in DOMAIN body.analysis : EnumFields \cap DOMAIN body.analysis[k] # {}
    THEN [raised |-> "TypeError"]
    ELSE [response |-> Response(200, body), raised |-> "none"]

RECURSIVE save_all(_, _)
save_all(table, results) ==
    IF results = <<>> THEN table
    ELSE save_all(save_analysis_result(table, Head(results)), Tail(results))

\* db_fails_at: the write (1, 2, 3) at which the database raises, 0 for none
analyze_code_endpoint(data, db_fails_at) ==
    /\ nops < MaxRequests
    /\ nops' = nops + 1
    /\ IF "code" \notin DOMAIN data
       THEN /\ response' = <<Response(400, [status |-> "error",
                                            error |-> "Missing code in request"])>>
            /\ request' = <<[results |-> <<>>, data |-> data, db_fails_at |-> 0]>>
            /\ UNCHANGED analysis_results
       ELSE LET code == data.code
                tag == IF "language" \in DOMAIN data THEN data.language ELSE "python"
            IN IF tag \notin LanguageType
               THEN /\ response' = <<Response(500, [status |-> "error",
                                                    error |-> "ValueError"])>>
                    /\ request' = <<[results |-> <<>>, data |-> data,
                                     db_fails_at |-> 0]>>
                    /\ UNCHANGED analysis_results
               ELSE LET complexity_result ==
                            analyze_complexity(code, tag, report(code).radon)
                        security_result ==
                            analyze_security(code, tag, report(code).bandit)
                        style_result == analyze_style(code, tag, report(code).pylint)
                        results == <<complexity_result, security_result, style_result>>
                        saved == IF db_fails_at = 0 THEN results
                                 ELSE SubSeq(results, 1, db_fails_at - 1)
                        sent == jsonify([analysis |-> [complexity |-> complexity_result,
                                                       security |-> security_result,
                                                       style |-> style_result],
                                         status |-> "success"])
                    IN /\ analysis_results' = save_all(analysis_results, saved)
                       /\ request' = <<[results |-> results, data |-> data,
                                        db_fails_at |-> db_fails_at]>>
                       /\ response' =
                              IF db_fails_at # 0
                              THEN <<Response(500, [status |-> "error",
                                                    error |-> "OperationalError"])>>
                              ELSE IF sent.raised # "none"
                              THEN <<Response(500, [status |-> "error",
                                                    error |-> sent.raised])>>
                              ELSE <<sent.response>>
    /\ UNCHANGED <<collaboration_sessions, rooms, inbox, flask_session, clock, last,
                   scenario>>
    /\ UNCHANGED <<input_code, input_language, tools, result, ai_enabled, call, running>>

----------------------------------------------------------------------------
(* src/app.py: AICodeAssistant and its demo responses *)

\* the texts the methods search for
BareExcept ==
    <<"e", "x", "c", "e", "p", "t", ":">>

EvalCall ==
    <<"e", "v", "a", "l", "(">>

InputCall ==
    <<"i", "n", "p", "u", "t", "(">>

IntCall ==
    <<"i", "n", "t", "(">>

LooseEquality ==
    <<"=", "=">>

StrictEquality ==
    <<"=", "=", "=">>

VarKeyword ==
    <<"v", "a", "r", " ">>

python ==
    <<"p", "y", "t", "h", "o", "n">>

javascript ==
    <<"j", "a", "v", "a", "s", "c", "r", "i", "p", "t">>

\* request.code is None
NoCode == <<"None">>

\* not request.code: None or the empty string
falsy(code) == code = NoCode \/ code = <<>>

CodeRequest(task_type, language, prompt, code, context) ==
    [code |-> code, language |-> language, task_type |-> task_type,
     prompt |-> prompt, context |-> context]

CodeResponse(task_type, language, text, suggestions, confidence) ==
    [result |-> text, language |-> language, suggestions |-> suggestions,
     confidence |-> confidence, task_type |-> task_type]

Returned(r) == [response |-> r, raised |-> "none"]
Raised(exception) == [raised |-> exception]

\* a confidence, in hundredths
Confidence(hundredths) == hundredths

DemoSuggestions ==
    <<"This is a demo response. Configure OpenAI API for full functionality.">>

\* the f-strings of the demo generators: the fixed text and the values put in it
generate_demo_code(req) ==
    IF lower(req.language) = python
    THEN <<"# Generated Python code for:", req.prompt, "def example_function(): ...">>
    ELSE IF lower(req.language) = javascript
    THEN <<"// Generated JavaScript code for:", req.prompt,
           "function exampleFunction() {...}">>
    ELSE <<"// Demo code for", req.language, "// Task:", req.prompt,
           "// Configure OpenAI API for full functionality">>

generate_demo_completion(req) ==
    <<req.code, "// Code completion demo",
      "// Configure OpenAI API for intelligent code completion">>

generate_demo_documentation(req) ==
    <<"# Code Documentation", "The provided", req.language, "code has been analyzed.">>

\* generate_code with no except clause around the call of the language model
generate_code_uncaught(ai_enabled_, req, llm) ==
    IF ai_enabled_ /\ ~llm.ok THEN Raised("Exception")
    ELSE IF ai_enabled_
    THEN Returned(CodeResponse(req.task_type, req.language, <<llm.content>>,
                               <<"Consider adding unit tests for this code">>,
                               Confidence(90)))
    ELSE Returned(CodeResponse(req.task_type, req.language, generate_demo_code(req),
                               DemoSuggestions, Confidence(50)))

\* llm: what openai.ChatCompletion.create does for the call (ok = FALSE: it raises)
generate_code(ai_enabled_, req, llm) ==
    IF ai_enabled_ /\ llm.ok
    THEN Returned(CodeResponse(req.task_type, req.language, <<llm.content>>,
                               <<"Consider adding unit tests for this code",
                                 "Review error handling and edge cases",
                                 "Optimize for performance if needed">>,
                               Confidence(90)))
    ELSE Returned(CodeResponse(req.task_type, req.language, generate_demo_code(req),
                               DemoSuggestions, Confidence(50)))

complete_code(ai_enabled_, req, llm) ==
    IF ai_enabled_ /\ ~falsy(req.code) /\ llm.ok
    THEN Returned(CodeResponse(req.task_type, req.language, <<llm.content>>,
                               <<"Review the completed code for correctness",
                                 "Test the functionality thoroughly",
                                 "Consider refactoring for better readability">>,
                               Confidence(85)))
    ELSE Returned(CodeResponse(req.task_type, req.language,
                               generate_demo_completion(req),
                               DemoSuggestions, Confidence(50)))

BareExceptBug == "Bare except clause detected - should catch specific exceptions"
EvalBug == "Use of eval() detected - potential security risk"
InputBug == "Potential ValueError if non-numeric input provided"
EqualityBug == "Use === instead of == for strict equality"
VarBug == "Consider using 'let' or 'const' instead of 'var'"

\* detect_bugs comparing the language with 'python' as it was given
detect_bugs_case_sensitive(req) ==
    IF falsy(req.code) THEN Raised("ValueError")
    ELSE LET bugs_found ==
                 IF req.language = python /\ contains(BareExcept, req.code)
                 THEN <<BareExceptBug>> ELSE <<>>
         IN Returned(CodeResponse(req.task_type, req.language,
                << <<"Potential issues found:">> >>
                    \o [i \in 1..Len(bugs_found) |-> <<"- ", bugs_found[i]>>],
                <<"Fix the identified issues">>, Confidence(70)))

\* detect_bugs with no check of request.code
detect_bugs_unchecked(req) ==
    Returned(CodeResponse(req.task_type, req.language,
                          << <<"No obvious issues detected. Code looks good!">> >>,
                          <<"Consider adding unit tests">>, Confidence(70)))

detect_bugs(req) ==
    IF falsy(req.code) THEN Raised("ValueError")
    ELSE LET python_bugs ==
                 IF lower(req.language) = python
                 THEN (IF contains(BareExcept, req.code) THEN <<BareExceptBug>> ELSE <<>>)
                      \o (IF contains(EvalCall, req.code) THEN <<EvalBug>> ELSE <<>>)
                      \o (IF contains(InputCall, req.code) /\ contains(IntCall, req.code)
                          THEN <<InputBug>> ELSE <<>>)
                 ELSE <<>>
             javascript_bugs ==
                 IF lower(req.language) = javascript
                 THEN (IF contains(LooseEquality, req.code)
                          /\ ~contains(StrictEquality, req.code)
                       THEN <<EqualityBug>> ELSE <<>>)
                      \o (IF contains(VarKeyword, req.code) THEN <<VarBug>> ELSE <<>>)
                 ELSE <<>>
             bugs_found == python_bugs \o javascript_bugs
         IN Returned(CodeResponse(req.task_type, req.language,
                IF bugs_found # <<>>
                THEN << <<"Potential issues found:">> >>
                         \o [i \in 1..Len(bugs_found) |-> <<"- ", bugs_found[i]>>]
                ELSE << <<"No obvious issues detected. Code looks good!">> >>,
                IF bugs_found # <<>>
                THEN <<"Fix the identified issues", "Add proper error handling",
                       "Consider using a linter for additional checks">>
                ELSE <<"Consider adding unit tests", "Review for edge cases",
                       "Use a comprehensive linter for thorough analysis">>,
                Confidence(70)))

generate_documentation(ai_enabled_, req, llm) ==
    IF falsy(req.code) THEN Raised("ValueError")
    ELSE Returned(CodeResponse(req.task_type, req.language,
                IF ai_enabled_ /\ llm.ok THEN <<llm.content>>
                ELSE generate_demo_documentation(req),
                <<"Review the generated documentation for accuracy",
                  "Add code examples if not included",
                  "Keep documentation updated with code changes">>,
                IF ai_enabled_ /\ llm.ok THEN Confidence(90) ELSE Confidence(50)))

\* the code of the bug detection scenario
ScenarioCode ==
    <<"t", "r", "y", ":", "\n", " ", " ", " ", " ", "x", " ", "=", " ",
    "i", "n", "t", "(", "i", "n", "p", "u", "t", "(", ")", ")", "\n", "e",
    "x", "c", "e", "p", "t", ":", "\n", " ", " ", " ", " ", "p", "a", "s",
    "s">>

NamedHandlerCode ==
    <<"t", "r", "y", ":", "\n", " ", " ", " ", " ", "f", "(", ")", "\n",
    "e", "x", "c", "e", "p", "t", " ", "V", "a", "l", "u", "e", "E", "r",
    "r", "o", "r", ":", "\n", " ", " ", " ", " ", "p", "a", "s", "s">>

EvalCode ==
    <<"y", " ", "=", " ", "e", "v", "a", "l", "(", "x", ")">>

ScriptCode ==
    <<"v", "a", "r", " ", "a", " ", "=", " ", "b", " ", "=", "=", " ", "c">>

\* a == b && c === d
MixedEqualityCode ==
    <<"a", " ", "=", "=", " ", "b", " ", "&", "&", " ", "c", " ", "=", "=", "=",
      " ", "d">>

CapitalPython ==
    <<"P", "y", "t", "h", "o", "n">>

AppCodes ==
    {ScenarioCode, NamedHandlerCode, EvalCode, ScriptCode, MixedEqualityCode, <<>>}
AppLanguages == {python, CapitalPython, javascript}
Prompt == "sort a list"

\* what the language model does for a call: it answers, or it raises
LLM == {[ok |-> TRUE, content |-> "generated text"], [ok |-> FALSE, content |-> ""]}

\* requests made of the methods directly
CodeRequests ==
    {CodeRequest(t, l, <<Prompt>>, c, None) :
        t \in {"code_generation", "bug_detection"},
        l \in AppLanguages, c \in AppCodes \cup {NoCode}}

Invocation(method, req, llm, outcome) ==
    [request |-> req, llm |-> llm, method |-> method, outcome |-> outcome]

\* a method is called directly: the last operation is no HTTP request
Invoke(method, req, llm, outcome) ==
    /\ call' = <<Invocation(method, req, llm, outcome)>>
    /\ request' = <<>>
    /\ response' = <<>>
    /\ UNCHANGED <<analysis_results, ai_enabled, running>>
    /\ UNCHANGED <<input_code, input_language, tools, result>>
    /\ UNCHANGED session_vars

GenerateCode(req, llm) ==
    Invoke("generate_code", req, llm, generate_code(ai_enabled, req, llm))

CompleteCode(req, llm) ==
    Invoke("complete_code", req, llm, complete_code(ai_enabled, req, llm))

DetectBugs(req, llm) ==
    Invoke("detect_bugs", req, llm, detect_bugs(req))

GenerateDocumentation(req, llm) ==
    Invoke("generate_documentation", req, llm,
           generate_documentation(ai_enabled, req, llm))

----------------------------------------------------------------------------
(* src/app.py: the POST endpoints *)

\* JSON bodies: every subset of the fields code, language and prompt
Body(fields, c, l) ==
    [k \in fields |-> IF k = "code" THEN c ELSE IF k = "language" THEN l ELSE <<Prompt>>]

AppBodies ==
    {Body(fields, c, l) :
        fields \in SUBSET {"code", "language", "prompt"},
        c \in AppCodes, l \in AppLanguages}

\* data.get(key, default)
get(data, key, default) == IF key \in DOMAIN data THEN data[key] ELSE default

\* the endpoint's answer: 400 when a required field is missing, otherwise the
\* assistant is called and its response, or its exception, is rendered
Answer(route, data, required, method, req, llm, outcome) ==
    /\ request' = <<[data |-> data, route |-> route]>>
    /\ IF ~(required \subseteq DOMAIN data)
       THEN /\ response' = <<Response(400, [status |-> "error",
                                            error |-> "Missing required fields"])>>
            /\ call' = <<>>
       ELSE /\ call' = <<Invocation(method, req, llm, outcome)>>
            /\ response' =
                   IF outcome.raised # "none"
                   THEN <<Response(500, [status |-> "error", error |-> outcome.raised])>>
                   ELSE <<Response(200,
                              [result |-> outcome.response.result,
                               language |-> outcome.response.language,
                               suggestions |-> outcome.response.suggestions,
                               confidence |-> outcome.response.confidence,
                               status |-> "success",
                               task_type |-> outcome.response.task_type])>>
    /\ UNCHANGED <<analysis_results, ai_enabled, running>>
    /\ UNCHANGED <<input_code, input_language, tools, result>>
    /\ UNCHANGED session_vars

api_generate(data, llm) ==
    LET req == CodeRequest("code_generation", data.language, data.prompt, NoCode,
                           get(data, "context", None))
    IN Answer("/api/generate", data, {"prompt", "language"}, "generate_code", req, llm,
              generate_code(ai_enabled, req, llm))

api_complete(data, llm) ==
    LET req == CodeRequest("code_completion", data.language,
                           get(data, "prompt", <<"Complete this code">>), data.code,
                           get(data, "context", None))
    IN Answer("/api/complete", data, {"code", "language"}, "complete_code", req, llm,
              complete_code(ai_enabled, req, llm))

api_detect_bugs(data, llm) ==
    LET req == CodeRequest("bug_detection", data.language,
                           <<"Detect bugs in this code">>, data.code, None)
    IN Answer("/api/detect-bugs", data, {"code", "language"}, "detect_bugs", req, llm,
              detect_bugs(req))

api_document(data, llm) ==
    LET req == CodeRequest("documentation", data.language,
                           <<"Generate documentation for this code">>, data.code, None)
    IN Answer("/api/document", data, {"code", "language"}, "generate_documentation",
              req, llm, generate_documentation(ai_enabled, req, llm))

----------------------------------------------------------------------------
(* Specifications *)

\* the database is new (init_database creates the empty tables) and no request
\* has been made
NoRequests ==
    /\ analysis_results = <<>>
    /\ response = <<>>
    /\ request = <<>>
    /\ ai_enabled = FALSE
    /\ call = <<>>
    /\ running = [w \in Workers |-> Idle]

\* no code is under analysis
NoAnalysis ==
    /\ input_code = <<>>
    /\ input_language = "python"
    /\ tools = FailingTools
    /\ result = <<>>
    /\ NoRequests

\* The state after construction: CodeAssistant.__init__ sets an empty dict
InitStore ==
    /\ collaboration_sessions = <<>>
    /\ rooms = [s \in SessionIds |-> {}]
    /\ inbox = [c \in Clients |-> <<>>]
    /\ flask_session = [c \in Clients |-> NoUser]
    /\ clock = 0
    /\ last = Outcome("init", "-", "-", "-", "-", "-", "none", <<>>)
    /\ nops = 0
    /\ scenario = -1
    /\ NoAnalysis

\* The clients' flask sessions are set outside this program: either no client
\* carries a 'user_id', or every client carries its own
Init ==
    /\ collaboration_sessions = <<>>
    /\ rooms = [s \in SessionIds |-> {}]
    /\ inbox = [c \in Clients |-> <<>>]
    /\ flask_session \in {[c \in Clients |-> NoUser], [c \in Clients |-> c]}
    /\ clock = 0
    /\ last = Outcome("init", "-", "-", "-", "-", "-", "none", <<>>)
    /\ nops = 0
    /\ scenario = 0
    /\ NoAnalysis

\* the SocketIO events
Next ==
    \/ \E p \in Clients, s \in SessionIds, c \in InitialCodes, l \in RawLanguages :
           handle_create_session(p, s, c, l)
    \/ \E p \in Clients, s \in SessionIds : handle_join_session(p, s)
    \/ \E p \in Clients, s \in SessionIds, c \in Codes : handle_code_change(p, s, c)

Spec == Init /\ [][Next]_vars

\* direct calls of the session operations
NextStore ==
    \/ \E s \in SessionIds, c \in Codes, l \in Languages : CreateSession(s, c, l)
    \/ \E s \in SessionIds, u \in Clients : JoinSession(s, u)
    \/ \E s \in SessionIds, c \in Codes, u \in Clients : UpdateCode(s, c, u)

SpecStore == InitStore /\ [][NextStore]_vars

\* one create_session event, then the workers, each running one operation
NextConcurrent ==
    \/ \E p \in Clients, s \in SessionIds, c \in InitialCodes : Setup(p, s, c, "python")
    \/ \E w \in Workers, op \in WorkerOps, p \in Clients, s \in SessionIds, c \in Codes :
           Begin(w, op, p, s, IF op = "join" THEN "-" ELSE c)
    \/ \E w \in Workers : JoinTest(w)
    \/ \E w \in Workers : JoinAppend(w)
    \/ \E w \in Workers : SetContent(w)
    \/ \E w \in Workers : SetModified(w)
    \/ \E w \in Workers : Emit(w)

SpecConcurrent == InitStore /\ [][NextConcurrent]_vars

\* the SocketIO events and direct calls of the session operations on the one
\* CodeAssistant object, in any order
NextMixed ==
    \/ \E p \in Clients, s \in SessionIds, c \in InitialCodes :
           nops < MaxMixed /\ handle_create_session(p, s, c, "python")
    \/ \E p \in Clients, s \in SessionIds, c \in Codes :
           nops < MaxMixed /\ handle_code_change(p, s, c)
    \/ \E s \in SessionIds, u \in Clients : nops < MaxMixed /\ JoinSession(s, u)
    \/ \E s \in SessionIds, c \in Codes, u \in Clients :
           nops < MaxMixed /\ UpdateCode(s, c, u)

SpecMixed == Init /\ [][NextMixed]_vars

\* direct calls, with the design contract's deactivate among them
NextDeactivate ==
    \/ NextStore
    \/ \E s \in SessionIds : Deactivate(s)

SpecDeactivate == InitStore /\ [][NextDeactivate]_vars

\* A code text to analyse: in a language other than python; in python with no
\* tool working; in python with one tool reporting
InitAnalyze ==
    /\ collaboration_sessions = <<>>
    /\ rooms = [s \in SessionIds |-> {}]
    /\ inbox = [c \in Clients |-> <<>>]
    /\ flask_session = [c \in Clients |-> NoUser]
    /\ clock = 0
    /\ last = Outcome("init", "-", "-", "-", "-", "-", "none", <<>>)
    /\ nops = 0
    /\ scenario = -1
    /\ result = <<>>
    /\ NoRequests
    /\ \/ /\ input_language \in AnalysisLanguages
          /\ input_code \in CodeInputs
          /\ tools = FailingTools
       \/ /\ input_language = "python"
          /\ input_code \in PythonCodes
          /\ tools \in {Tools(r, BanditFails, PylintFails) : r \in RadonInputs}
                     \cup {Tools(RadonFails, b, PylintFails) : b \in BanditInputs}
                     \cup {Tools(RadonFails, BanditFails, p) : p \in PylintInputs}

\* The service before its first request: the code text the tools have a report
\* for, and that report
InitEndpoint ==
    /\ collaboration_sessions = <<>>
    /\ rooms = [s \in SessionIds |-> {}]
    /\ inbox = [c \in Clients |-> <<>>]
    /\ flask_session = [c \in Clients |-> NoUser]
    /\ clock = 0
    /\ last = Outcome("init", "-", "-", "-", "-", "-", "none", <<>>)
    /\ nops = 0
    /\ scenario = -1
    /\ result = <<>>
    /\ NoRequests
    /\ input_language = "python"
    /\ input_code = CodeOf(<<EvalLine, PlainLine>>)
    /\ tools \in {FailingTools, WorkingTools}

NextEndpoint ==
    \E data \in RequestBodies, db_fails_at \in 0..3 :
        analyze_code_endpoint(data, db_fails_at)

SpecEndpoint == InitEndpoint /\ [][NextEndpoint]_vars

\* src/app.py after import: the assistant was constructed with or without an
\* API key in the environment
InitApp ==
    /\ collaboration_sessions = <<>>
    /\ rooms = [s \in SessionIds |-> {}]
    /\ inbox = [c \in Clients |-> <<>>]
    /\ flask_session = [c \in Clients |-> NoUser]
    /\ clock = 0
    /\ last = Outcome("init", "-", "-", "-", "-", "-", "none", <<>>)
    /\ nops = 0
    /\ scenario = -1
    /\ input_code = <<>>
    /\ input_language = "python"
    /\ tools = FailingTools
    /\ result = <<>>
    /\ analysis_results = <<>>
    /\ response = <<>>
    /\ request = <<>>
    /\ call = <<>>
    /\ running = [w \in Workers |-> Idle]
    /\ ai_enabled \in BOOLEAN

NextApp ==
    \/ \E req \in CodeRequests, llm \in LLM : GenerateCode(req, llm)
    \/ \E req \in CodeRequests, llm \in LLM : CompleteCode(req, llm)
    \/ \E req \in CodeRequests, llm \in LLM : DetectBugs(req, llm)
    \/ \E req \in CodeRequests, llm \in LLM : GenerateDocumentation(req, llm)
    \/ \E data \in AppBodies, llm \in LLM : api_generate(data, llm)
    \/ \E data \in AppBodies, llm \in LLM : api_complete(data, llm)
    \/ \E data \in AppBodies, llm \in LLM : api_detect_bugs(data, llm)
    \/ \E data \in AppBodies, llm \in LLM : api_document(data, llm)

SpecApp == InitApp /\ [][NextApp]_vars

NextAnalyze ==
    \/ AnalyzeComplexity
    \/ AnalyzeSecurity
    \/ AnalyzeStyle

SpecAnalyze == InitAnalyze /\ [][NextAnalyze]_vars

----------------------------------------------------------------------------
(* Claims about the session store and the SocketIO handlers *)

NoDuplicates(list) == \A i, j \in 1..Len(list) : list[i] = list[j] => i = j

\* the code_updated events a client has received, in order
CodeUpdatedReceived(c) == SelectSeq(inbox[c], LAMBDA m : m.event = "code_updated")

\* the clients whose user identifier is registered in the session
ParticipantClients(store, session_id) ==
    {c \in Clients : InList(flask_session[c], store[session_id].participants)}

\* the events the step delivered to client c
Delivered(c) == SubSeq(inbox'[c], Len(inbox[c]) + 1, Len(inbox'[c]))

C2_Step ==
    last'.op = "update" =>
        /\ (/\ last'.session_id \in DOMAIN collaboration_sessions
            /\ collaboration_sessions[last'.session_id].is_active)
           => /\ last'.ret = "True"
              /\ collaboration_sessions'[last'.session_id].code_content = last'.code
        /\ last'.session_id \notin DOMAIN collaboration_sessions
           => /\ last'.ret = "False"
              /\ collaboration_sessions' = collaboration_sessions

\* C2: update_content on an existing active session returns true and leaves the
\* stored content equal to the new code whatever it was before; on an identifier
\* that is not in the store it returns false and the store is unchanged.
C2_UpdateReplacesContent == [][C2_Step]_vars

C2_Witness ==
    /\ last.op = "update"
    /\ last.ret = "True"
    /\ Len(last.before) = 1
    /\ last.before[1].code_content # last.code
    /\ collaboration_sessions[last.session_id].code_content = last.code

\* C3: after the run create s1 with a=1, p1 joins, p2 joins, p1 edits a=2, the
\* stored content of s1 is a=2 and p2 has received exactly one code_updated
\* event, with payload a=2.
C3_ScenarioOutcome ==
    scenario = Len(ScenarioRun) =>
        /\ collaboration_sessions["s1"].code_content = "a=2"
        /\ Len(CodeUpdatedReceived("p2")) = 1
        /\ CodeUpdatedReceived("p2")[1].code = "a=2"

C4_Step ==
    (last'.op = "code_change" /\ last'.ret = "True") =>
        {c \in Clients : Delivered(c) # <<>>} =
            ParticipantClients(collaboration_sessions', last'.session_id)
                \ {last'.client}

\* C4: when an edit is accepted, the clients that receive the code_updated
\* broadcast are exactly the session's registered participants other than the
\* originator.
C4_BroadcastToParticipants == [][C4_Step]_vars

C5_Step ==
    (/\ last'.op = "join_session"
     /\ last'.session_id \notin DOMAIN collaboration_sessions) =>
        /\ last'.ret = None
        /\ collaboration_sessions' = collaboration_sessions
        /\ rooms' = rooms
        /\ \A c \in Clients :
               Delivered(c) = IF c = last'.client
                              THEN << Message("session_error", "-", "-", "-", "-",
                                              <<>>) >>
                              ELSE <<>>

\* C5: a join event for an identifier that names no session fails with a
\* 'Session not found' error to the caller: no session object is returned, no
\* session is created, no participant is added, no room is joined and no
\* user_joined event is sent.
C5_JoinUnknownFails == [][C5_Step]_vars

C5_Witness ==
    /\ last.op = "join_session"
    /\ last.before = <<>>
    /\ last.ret = None
    /\ collaboration_sessions # <<>>
    /\ inbox[last.client][Len(inbox[last.client])].event = "session_error"

C6_Step ==
    (/\ last'.op = "join_session"
     /\ last'.session_id \in DOMAIN collaboration_sessions) =>
        LET session == collaboration_sessions'[last'.session_id]
        IN /\ last'.raised = "none"
           /\ InList(last'.user_id, session.participants)
           /\ \E i \in 1..Len(Delivered(last'.client)) :
                  LET m == Delivered(last'.client)[i]
                  IN /\ m.event = "session_joined"
                     /\ m.code = session.code_content
                     /\ m.language = session.language
           /\ \A c \in ParticipantClients(collaboration_sessions', last'.session_id)
                           \cup {last'.client} :
                  \E i \in 1..Len(Delivered(c)) :
                      /\ Delivered(c)[i].event = "user_joined"
                      /\ Delivered(c)[i].users = session.participants

\* C6: a join event for a session that exists adds the user to the participants,
\* answers the joiner with the session's content and language, and delivers
\* user_joined with the updated participants to all participants and the
\* joiner; the handler does not raise.
C6_JoinExistingSucceeds == [][C6_Step]_vars

C7_Step ==
    (/\ last'.op = "join"
     /\ last'.session_id \in DOMAIN collaboration_sessions
     /\ InList(last'.user_id,
               collaboration_sessions[last'.session_id].participants)) =>
        collaboration_sessions' = collaboration_sessions

\* C7: join(s, p) on a session that already contains p changes nothing, and no
\* participant identifier ever occurs twice in a session's participants.
C7_JoinIdempotent ==
    /\ [](\A s \in DOMAIN collaboration_sessions :
              NoDuplicates(collaboration_sessions[s].participants))
    /\ [][C7_Step]_vars

C7_Witness ==
    /\ last.op = "join"
    /\ Len(last.before) = 1
    /\ InList(last.user_id, last.before[1].participants)
    /\ Len(last.before[1].participants) = 2
    /\ collaboration_sessions[last.session_id] = last.before[1]

C8_Step ==
    /\ (/\ last'.op = "update"
        /\ last'.session_id \in DOMAIN collaboration_sessions
        /\ ~collaboration_sessions[last'.session_id].is_active)
       => /\ last'.ret = "False"
          /\ collaboration_sessions' = collaboration_sessions
    /\ (/\ last'.op = "deactivate"
        /\ last'.session_id \in DOMAIN collaboration_sessions)
       => collaboration_sessions' =
              [collaboration_sessions EXCEPT ![last'.session_id].is_active = FALSE]

\* C8: update_content on a deactivated session returns false and leaves the
\* content and last-modified unchanged; deactivate only clears the active flag.
C8_UpdateDeactivatedRejected == [][C8_Step]_vars

C9_Step ==
    (/\ last'.op = "create"
     /\ last'.session_id \in DOMAIN collaboration_sessions
     /\ collaboration_sessions[last'.session_id].is_active) =>
        /\ last'.raised = "DuplicateSessionError"
        /\ collaboration_sessions' = collaboration_sessions

\* C9: create on an identifier that names an active session fails with
\* DuplicateSessionError and leaves the existing session unchanged.
C9_CreateDuplicateFails == [][C9_Step]_vars

C10_Step ==
    (/\ last'.op = "create"
     /\ last'.session_id \in DOMAIN collaboration_sessions) =>
        /\ last'.raised = "none"
        /\ last'.ret = "session"
        /\ collaboration_sessions'[last'.session_id].code_content = last'.code
        /\ collaboration_sessions'[last'.session_id].participants = <<>>
        /\ collaboration_sessions'[last'.session_id].is_active

\* C10: create on an identifier already in the store succeeds silently and
\* overwrites the session: content is the initial code, the participant list is
\* empty, the session is active and no error is reported.
C10_CreateOverwrites == [][C10_Step]_vars

C10_Witness ==
    /\ last.op = "create"
    /\ Len(last.before) = 1
    /\ last.before[1].participants # <<>>
    /\ last.before[1].code_content # last.code
    /\ collaboration_sessions[last.session_id].participants = <<>>

InRange(score) == 0 <= score.num /\ score.num <= 100 * score.den /\ score.den > 0

\* C1: the score of every analyzer call, on the tool path and on the fallback
\* path, lies in [0, 100] however many issues or indicators are found.
C1_ScoreInRange == \A i \in 1..Len(result) : InRange(result[i].score)

\* a call whose unclamped score is negative: 21 over-long lines in the fallback
\* style analysis
C1_Witness ==
    /\ Len(result) = 1
    /\ result[1].analysis_type = "style"
    /\ input_language # "python"
    /\ Len(result[1].issues) = 21
    /\ result[1].score = Score(0, 1)

C11_Step ==
    input_language = "python" =>
        /\ (AnalyzeComplexity /\ ~tools.radon.ok)
               => result' = <<basic_complexity_analysis(input_code, input_language)>>
        /\ (AnalyzeSecurity /\ ~tools.bandit.ok)
               => result' = <<basic_security_analysis(input_code, input_language)>>
        /\ (AnalyzeStyle /\ ~tools.pylint.ok)
               => result' = <<basic_style_analysis(input_code, input_language)>>

\* C11: for python code, when the structural parser, the security scanner or
\* the lint tool raises, analyze_complexity, analyze_security and analyze_style
\* return the result of the corresponding fallback heuristic for the same code
\* and language, and no exception reaches the caller.
C11_FallbackOnFailure == [][C11_Step]_vars

\* the lint tool failed on python code with an over-long line, and the result
\* is the fallback's
C11_Witness ==
    /\ Len(result) = 1
    /\ input_language = "python"
    /\ ~tools.pylint.ok
    /\ result[1].analysis_type = "style"
    /\ result[1].language = "python"
    /\ Len(result[1].issues) = 1
    /\ result[1].issues[1].type = "line_too_long"

----------------------------------------------------------------------------
(* Claims about POST /api/analyze-code and the table analysis_results *)

\* the step is a request that reached the analyses
Analysed == request' # <<>> /\ nops' = nops + 1 /\ request'[1].results # <<>>

\* the rows the step appended
Appended ==
    SubSeq(analysis_results', Len(analysis_results) + 1, Len(analysis_results'))

Succeeded(resp) == resp[1].status_code = 200 /\ resp[1].body.status = "success"

Kinds == <<"complexity", "security", "style">>

\* the row holds what the result holds
Stored(row, r) ==
    /\ row.analysis_type = r.analysis_type
    /\ row.score.num * r.score.den = r.score.num * row.score.den
    /\ row.issues = json_dumps_dicts(r.issues)
    /\ row.suggestions = json_dumps_strings(r.suggestions)
    /\ row.metrics = json_dumps_dict(r.metrics)

C12_Step ==
    (Analysed /\ request'[1].db_fails_at # 0) =>
        /\ Succeeded(response')
        /\ \A k \in 1..3 : response'[1].body.analysis[Kinds[k]] = request'[1].results[k]
        /\ Len(Appended) = 2
        /\ \A k \in 1..3 :
               k # request'[1].db_fails_at =>
                   \E i \in 1..Len(Appended) : Stored(Appended[i], request'[1].results[k])

\* C12: when the write of one of the three results fails, the request still
\* answers success with all three results, and the other two results are
\* written.
C12_PersistenceFailureTolerated == [][C12_Step]_vars

C13_Step ==
    (/\ request' # <<>>
     /\ nops' = nops + 1
     /\ "code" \in DOMAIN request'[1].data
     /\ "language" \in DOMAIN request'[1].data
     /\ request'[1].data.language \notin LanguageType) =>
        LET code == request'[1].data.code
            tag == request'[1].data.language
        IN /\ Succeeded(response')
           /\ response'[1].body.analysis.complexity = basic_complexity_analysis(code, tag)
           /\ response'[1].body.analysis.security = basic_security_analysis(code, tag)
           /\ response'[1].body.analysis.style = basic_style_analysis(code, tag)

\* C13: a request whose language tag is not a recognized language answers
\* success with the three results of the fallback heuristics.
C13_UnknownLanguageFallsBack == [][C13_Step]_vars

C14_Step ==
    /\ SubSeq(analysis_results', 1, Len(analysis_results)) = analysis_results
    /\ Len(analysis_results') >= Len(analysis_results)
    /\ (Analysed /\ request'[1].db_fails_at = 0) =>
           /\ Len(Appended) = 3
           /\ \A k \in 1..3 : Appended[k].analysis_type = Kinds[k]
           /\ Succeeded(response')
           /\ \A k \in 1..3 : Stored(Appended[k], response'[1].body.analysis[Kinds[k]])

\* C14: an analyze call that completes appends exactly three rows, one each
\* for complexity, security and style, each equal in score, issues, suggestions
\* and metrics to the result the caller receives under that kind; and no call
\* changes or removes a row already stored.
C14_ThreeRecordsAppended == [][C14_Step]_vars

----------------------------------------------------------------------------
(* Claims about the fallback heuristics *)

\* the 1-based numbers of the lines of the code text longer than 120 characters
OverLong == LET lines == split(input_code, NL)
            IN {i \in 1..Len(lines) : Len(lines[i]) > 120}

\* C16: the fallback style analysis flags exactly the lines longer than 120
\* characters, with one low-severity issue per such line that carries its
\* 1-based number, and scores max(0, 100 - 5 x issues); one over-long line
\* gives one issue and score 95.
C16_FallbackStyle ==
    (/\ Len(result) = 1
     /\ result[1].analysis_type = "style"
     /\ (input_language # "python" \/ ~tools.pylint.ok)) =>
        LET issues == result[1].issues
            n == Cardinality(OverLong)
        IN /\ Len(issues) = n
           /\ {issues[k].line : k \in 1..Len(issues)} = OverLong
           /\ \A k \in 1..Len(issues) :
                  issues[k].type = "line_too_long" /\ issues[k].severity = "low"
           /\ result[1].score = Score(IF 5 * n > 100 THEN 0 ELSE 100 - 5 * n, 1)
           /\ n = 1 => Len(issues) = 1 /\ result[1].score = Score(95, 1)

\* a line of exactly 120 characters followed by one of 121: only line 2 is
\* flagged
C16_Witness ==
    /\ Len(result) = 1
    /\ result[1].analysis_type = "style"
    /\ input_language # "python"
    /\ input_code = CodeOf(<<FullLine, LongLine>>)
    /\ Len(result[1].issues) = 1
    /\ result[1].issues[1].line = 2
    /\ result[1].score = Score(95, 1)

\* the non-blank lines of the code text under analysis, in lower case
NonBlankLines ==
    LET lines == split(input_code, NL)
        kept == SelectSeq(lines, LAMBDA line : strip(line) # <<>>)
    IN [i \in 1..Len(kept) |-> lower(kept[i])]

\* the places of the text s at which sub occurs
Places(sub, s) ==
    {i \in 0..(Len(s) - Len(sub)) : \A j \in 1..Len(sub) : s[i + j] = sub[j]}

\* the occurrences of the keywords in the non-blank lines: line, keyword, place
KeywordOccurrences ==
    LET lines == NonBlankLines
    IN Cardinality(UNION {{<<p[1], p[2], at>> :
                              at \in Places(complexity_indicators[p[2]], lines[p[1]])} :
                          p \in (1..Len(lines)) \X (1..Len(complexity_indicators))})

\* the pairs of a non-blank line and a keyword that occurs in it
KeywordLines ==
    LET lines == NonBlankLines
    IN Cardinality({p \in (1..Len(lines)) \X (1..Len(complexity_indicators)) :
                       Places(complexity_indicators[p[2]], lines[p[1]]) # {}})

\* the last call was the complexity analysis and it took the fallback
FallbackComplexity ==
    /\ Len(result) = 1
    /\ result[1].analysis_type = "complexity"
    /\ (input_language # "python" \/ ~tools.radon.ok)

\* the result of the fallback for the count n
ComplexityFor(count) ==
    LET n == count
    IN /\ result[1].score = Score(IF 2 * n > 100 THEN 0 ELSE 100 - 2 * n, 1)
       /\ result[1].issues = <<>>
       /\ Len(result[1].suggestions) = (IF n > 10 THEN 1 ELSE 0)

\* a language other than python takes the fallback even when radon has a report
OtherLanguagesFallBack ==
    (FallbackComplexity /\ input_language # "python") =>
        analyze_complexity(input_code, input_language, WorkingTools.radon) = result[1]

\* C25: the fallback complexity analysis counts the occurrences of the
\* keywords if, else, for, while, switch, case, try, catch over the non-blank
\* lines, scores max(0, 100 - 2 x count), returns no issue, and returns one
\* suggestion when count > 10 and none otherwise; every language other than
\* python takes this fallback.
C25_FallbackComplexity ==
    /\ FallbackComplexity => ComplexityFor(KeywordOccurrences)
    /\ OtherLanguagesFallBack

\* C25 as the code has it: the count is the number of pairs of a non-blank line
\* and a keyword that occurs in the lower-cased line, so a keyword counts once
\* for a line however often it occurs there (and it counts inside longer words).
C25_FallbackComplexityPerLine ==
    /\ FallbackComplexity => ComplexityFor(KeywordLines)
    /\ OtherLanguagesFallBack

\* six lines with 'if' and 'for' inside 'elif' and 'format': count 12, score 76,
\* one suggestion
C25_Witness ==
    /\ FallbackComplexity
    /\ input_language = "javascript"
    /\ input_code = CodeOf(Rep(ElifLine, 6))
    /\ KeywordLines = 12
    /\ result[1].score = Score(76, 1)
    /\ Len(result[1].suggestions) = 1

\* the last call was the security analysis and it took the fallback
FallbackSecurity ==
    /\ Len(result) = 1
    /\ result[1].analysis_type = "security"
    /\ (input_language # "python" \/ ~tools.bandit.ok)

\* the occurrences of the patterns in the text, case disregarded: pattern, place
PatternOccurrences ==
    LET lowered == lower(input_code)
    IN Cardinality(UNION {{<<i, at>> : at \in Places(lower(security_patterns[i].pattern), lowered)} :
                          i \in 1..Len(security_patterns)})

\* the patterns that occur in the text, case disregarded
PatternsPresent ==
    LET lowered == lower(input_code)
    IN Cardinality({i \in 1..Len(security_patterns) :
                       Places(lower(security_patterns[i].pattern), lowered) # {}})

\* the result of the fallback for k matches
SecurityFor(matches) ==
    LET k == matches
        issues == result[1].issues
    IN /\ Len(issues) = k
       /\ \A i \in 1..Len(issues) :
              /\ issues[i].severity = "medium"
              /\ \E j \in 1..Len(security_patterns) :
                     /\ issues[i].type = security_patterns[j].type
                     /\ issues[i].pattern = security_patterns[j].pattern
       /\ result[1].score = Score(IF 10 * Len(issues) > 100 THEN 0
                                                           ELSE 100 - 10 * Len(issues), 1)
       /\ Len(result[1].suggestions) = Len(issues)

\* C26: the fallback security analysis scans the text without regard to case
\* for the patterns of the four families and reports every match as one
\* medium-severity issue, a text with k matches giving k issues; the score is
\* max(0, 100 - 10 x issues) and there is one suggestion per issue.
C26_FallbackSecurity == FallbackSecurity => SecurityFor(PatternOccurrences)

\* C26 as the code has it: one issue for every pattern that occurs in the text,
\* however often it occurs there.
C26_FallbackSecurityPerPattern == FallbackSecurity => SecurityFor(PatternsPresent)

\* 'Password = EVAL(token)' twice: six occurrences of three patterns found
\* without regard to case, three issues, score 70
C26_Witness ==
    /\ FallbackSecurity
    /\ input_code = CodeOf(Rep(SecretLine, 2))
    /\ PatternOccurrences = 6
    /\ Len(result[1].issues) = 3
    /\ result[1].score = Score(70, 1)
    /\ Len(result[1].suggestions) = 3

----------------------------------------------------------------------------
(* Claims about src/app.py *)

Called(methods) == call # <<>> /\ call[1].method \in methods

\* C17: for language python, compared without regard to case, detect_bugs on
\* code that contains 'except:' returns a report with the issue about the bare
\* except clause; so it does for the scenario code.
C17_BareExceptReported ==
    (/\ Called({"detect_bugs"})
     /\ lower(call[1].request.language) = python
     /\ contains(BareExcept, call[1].request.code)) =>
        /\ call[1].outcome.raised = "none"
        /\ \E i \in 1..Len(call[1].outcome.response.result) :
               call[1].outcome.response.result[i] = <<"- ", BareExceptBug>>

\* the scenario code, submitted with the language written 'Python'
C17_Witness ==
    /\ Called({"detect_bugs"})
    /\ call[1].request.language = CapitalPython
    /\ call[1].request.code = ScenarioCode
    /\ call[1].outcome.raised = "none"
    /\ call[1].outcome.response.result[2] = <<"- ", BareExceptBug>>

\* the results the step wrote: all three, or those before the failing write
Written ==
    IF request'[1].db_fails_at = 0 THEN request'[1].results
    ELSE SubSeq(request'[1].results, 1, request'[1].db_fails_at - 1)

\* the same number, whatever its representation
SameNumber(a, b) == a.num * b.den = b.num * a.den

C18_Step ==
    /\ SubSeq(analysis_results', 1, Len(analysis_results)) = analysis_results
    /\ Analysed =>
           /\ Len(Appended) = Len(Written)
           /\ \A i \in 1..Len(Appended) :
                  LET back == load_analysis_result(Appended[i])
                  IN /\ SameNumber(back.score, Written[i].score)
                     /\ back.issues = Written[i].issues
                     /\ back.suggestions = Written[i].suggestions

Required(route) ==
    IF route = "/api/generate" THEN {"prompt", "language"} ELSE {"code", "language"}

\* C19: detect_bugs and generate_documentation raise ValueError and return no
\* CodeResponse when the request has no code or empty code; a POST body that
\* lacks a required field is answered 400 with status 'error' and the assistant
\* is not called; and empty code sent to an endpoint is answered with status
\* 'error'.
C19_MissingInputFails ==
    /\ (/\ Called({"detect_bugs", "generate_documentation"})
         /\ falsy(call[1].request.code)) =>
            /\ call[1].outcome.raised = "ValueError"
            /\ "response" \notin DOMAIN call[1].outcome
    /\ (request # <<>> /\ ~(Required(request[1].route) \subseteq DOMAIN request[1].data)) =>
            /\ response[1].status_code = 400
            /\ response[1].body.status = "error"
            /\ call = <<>>
    /\ (/\ request # <<>>
         /\ request[1].route \in {"/api/detect-bugs", "/api/document"}
         /\ "code" \in DOMAIN request[1].data
         /\ request[1].data.code = <<>>) =>
            response[1].body.status = "error"

\* empty code posted to /api/detect-bugs: the method raised and the endpoint
\* answered with an error
C19_Witness ==
    /\ request # <<>>
    /\ request[1].route = "/api/detect-bugs"
    /\ Required(request[1].route) \subseteq DOMAIN request[1].data
    /\ request[1].data.code = <<>>
    /\ Called({"detect_bugs"})
    /\ call[1].outcome.raised = "ValueError"
    /\ response[1].status_code = 500
    /\ response[1].body.status = "error"

\* the demo text of the method for the request
DemoResult(method, req) ==
    IF method = "generate_code" THEN generate_demo_code(req)
    ELSE generate_demo_completion(req)

\* C20: generate_code and complete_code, with no API key configured, return the
\* demo result for the request with confidence 0.5 and a non-empty suggestion
\* list, and echo the task type and the language of the request; with a key
\* configured and the language model raising they return the same response.
C20_DemoFallback ==
    (/\ Called({"generate_code", "complete_code"})
     /\ (~ai_enabled \/ ~call[1].llm.ok)) =>
        /\ call[1].outcome.raised = "none"
        /\ LET r == call[1].outcome.response
               req == call[1].request
           IN /\ r.result = DemoResult(call[1].method, req)
              /\ r.confidence = Confidence(50)
              /\ r.suggestions = DemoSuggestions
              /\ Len(r.suggestions) > 0
              /\ r.task_type = req.task_type
              /\ r.language = req.language

\* a key is configured, the language model raised, and generate_code returned
\* the demo response
C20_Witness ==
    /\ ai_enabled
    /\ Called({"generate_code"})
    /\ ~call[1].llm.ok
    /\ call[1].outcome.raised = "none"
    /\ call[1].outcome.response.confidence = Confidence(50)
    /\ call[1].outcome.response.result = generate_demo_code(call[1].request)

\* the lines of a detect_bugs report
Report == call[1].outcome.response.result

Reports(bug) == \E i \in 1..Len(Report) : Report[i] = <<"- ", bug>>

\* the code has an occurrence of the operator ==: two equals signs that are
\* not part of ===, !== or a longer run
UsesLooseEquality(code) ==
    \E i \in 1..(Len(code) - 1) :
        /\ code[i] = "=" /\ code[i + 1] = "="
        /\ (i > 1 => code[i - 1] \notin {"=", "!"})
        /\ (i + 2 <= Len(code) => code[i + 2] # "=")

\* some rule of the language of the request applies to its code
RuleApplies(req) ==
    \/ /\ lower(req.language) = python
       /\ \/ contains(BareExcept, req.code)
          \/ contains(EvalCall, req.code)
          \/ contains(InputCall, req.code) /\ contains(IntCall, req.code)
    \/ /\ lower(req.language) = javascript
       /\ (UsesLooseEquality(req.code) \/ contains(VarKeyword, req.code))

\* C21: for language javascript, detect_bugs reports the strict-equality issue
\* for every code that uses the operator == and the 'var' issue for every code
\* that contains 'var '; when no rule of the language of the request applies,
\* the result is the 'No obvious issues detected' message and no list.
C21_JavascriptRules ==
    (Called({"detect_bugs"}) /\ ~falsy(call[1].request.code)) =>
        LET req == call[1].request
        IN /\ call[1].outcome.raised = "none"
           /\ (lower(req.language) = javascript /\ UsesLooseEquality(req.code))
                  => Reports(EqualityBug)
           /\ (lower(req.language) = javascript /\ contains(VarKeyword, req.code))
                  => Reports(VarBug)
           /\ ~RuleApplies(req) =>
                  Report = << <<"No obvious issues detected. Code looks good!">> >>

----------------------------------------------------------------------------
(* Claims about concurrent handlers *)

\* what the operation of an invocation does to a store when it runs alone
Alone(store, inv) ==
    IF inv.op = "join"
    THEN join_collaboration_session(store, inv.session_id, inv.user_id)
    ELSE update_collaboration_code(store, inv.session_id, inv.code, inv.user_id, 0)

\* the two sessions agree in everything but their timestamps
SameSession(a, b) ==
    /\ a.participants = b.participants
    /\ a.code_content = b.code_content
    /\ a.language = b.language
    /\ a.is_active = b.is_active

\* both workers have run an operation on the stored session s to its end
BothDone(s) ==
    /\ s \in DOMAIN collaboration_sessions
    /\ \A w \in Workers : At(w, "done") /\ running[w].session_id = s

\* the worker that began first, and the session as it was then
First == CHOOSE w \in Workers : \A v \in Workers : running[w].started <= running[v].started

Base(s) == [k \in {s} |-> running[First].before[1]]

\* C22: two workers running join and/or update on one session, their steps
\* interleaved in any way, leave the session as some serial order of the two
\* operations leaves it; in particular two joins by one user leave that user
\* in the list once.
C22_Serializable ==
    \A s \in SessionIds :
        BothDone(s) =>
            /\ \E a, b \in Workers :
                   /\ a # b
                   /\ SameSession(collaboration_sessions[s],
                                  Alone(Alone(Base(s), running[a]), running[b])[s])
            /\ NoDuplicates(collaboration_sessions[s].participants)

\* worker w is about to emit the message m
Emitting(w, m) ==
    /\ At(w, "emit")
    /\ running'[w].pc = "done"
    /\ running[w].op = "code_change"
    /\ running[w].session_id = m.session_id
    /\ running[w].code = m.code

C23_Step ==
    /\ \A c \in Clients :
           \A i \in 1..Len(Delivered(c)) :
               Delivered(c)[i].event = "code_updated" =>
                   /\ Delivered(c)[i].session_id \in DOMAIN collaboration_sessions
                   /\ \E w \in Workers : Emitting(w, Delivered(c)[i])
    /\ \A w \in Workers :
           /\ (running'[w].pc = "emit" /\ ~At(w, "emit")) =>
                  /\ At(w, "modified")
                  /\ running'[w].ret = "True"
                  /\ running[w].session_id \in DOMAIN collaboration_sessions
           /\ (running'[w].pc = "modified" /\ ~At(w, "modified")) =>
                  /\ running[w].session_id \in DOMAIN collaboration_sessions
                  /\ collaboration_sessions'[running[w].session_id].code_content =
                         running[w].code

\* C23: a code_updated message for session s with code c is delivered only by
\* a code_change handler that is past its update of s to c, for a session in
\* the store: the handler reaches its emit only from the last statement of an
\* update that returned True, and reaches that statement only by writing c as
\* the content of s.
C23_BroadcastAfterUpdate == [][C23_Step]_vars

\* a client has received a code_updated message, and the sender's update had
\* returned True
C23_Witness ==
    \E c \in Clients, w \in Workers :
        /\ Len(CodeUpdatedReceived(c)) > 0
        /\ At(w, "done")
        /\ running[w].op = "code_change"
        /\ running[w].ret = "True"
        /\ CodeUpdatedReceived(c)[1].code = running[w].code
        /\ CodeUpdatedReceived(c)[1].session_id = running[w].session_id

\* both workers have run a code_change handler for the stored session s to
\* its end, every broadcast delivered
EditsDone(s) ==
    /\ s \in DOMAIN collaboration_sessions
    /\ \A w \in Workers :
           At(w, "done") /\ running[w].op = "code_change" /\ running[w].session_id = s

\* the clients in the room of s that sent none of the edits
Watchers(s) == {c \in Room(rooms, s) : \A w \in Workers : running[w].client # c}

\* C27: once all code_change handlers for a session have finished and their
\* broadcasts are delivered in order, the last code_updated message received
\* by a client of the room that sent none of the edits carries the content
\* the store holds for the session.
C27_ClientsConverge ==
    \A s \in SessionIds :
        EditsDone(s) =>
            \A c \in Watchers(s) :
                LET got == CodeUpdatedReceived(c)
                IN got # <<>> => got[Len(got)].code = collaboration_sessions[s].code_content

----------------------------------------------------------------------------
(* Further claims about the session store *)

C24_Step ==
    /\ DOMAIN collaboration_sessions \subseteq DOMAIN collaboration_sessions'
    /\ active_sessions(collaboration_sessions')
           >= active_sessions(collaboration_sessions)

\* C24: an identifier that create has put in the store is in the store in
\* every later state, whatever creates, joins and updates follow, so the
\* number of stored sessions, reported as active_sessions, never decreases.
C24_NeverRemoved == [][C24_Step]_vars

\* both sessions are stored and the last operation created one of them anew
C24_Witness ==
    /\ active_sessions(collaboration_sessions) = 2
    /\ last.op = "create"
    /\ Len(last.before) = 1

\* the user identifiers an edit can carry
Senders == Clients \cup {"anonymous"}

C28_Step ==
    (/\ last'.op \in {"update", "code_change"}
     /\ nops' = nops + 1
     /\ last'.session_id \in DOMAIN collaboration_sessions)
    => LET s == last'.session_id
           t == collaboration_sessions'[s].last_modified
       IN /\ last'.ret = "True"
          /\ last'.raised = "none"
          /\ collaboration_sessions'[s].code_content = last'.code
          /\ \A u \in Senders :
                 update_collaboration_code(collaboration_sessions, s, last'.code, u, t)
                     = collaboration_sessions'
          /\ last'.op = "code_change" =>
                 \A c \in Clients :
                     Delivered(c) =
                         IF c \in Room(rooms, s) \ {last'.client}
                         THEN <<Message("code_updated", s, last'.code, "-",
                                        last'.user_id, <<>>)>>
                         ELSE <<>>

\* C28: an edit for a stored session is accepted, replaces the content and, in
\* the code_change handler, is broadcast to the room of the session, whether
\* or not the sending user is in the session's participants; the user
\* identifier passed to the update has no influence on the store it leaves.
C28_NoMembershipCheck == [][C28_Step]_vars

\* a code_change by a user who is not among the session's participants, the
\* session having some, was accepted and a client of the room received it
C28_Witness ==
    /\ last.op = "code_change"
    /\ last.ret = "True"
    /\ Len(last.before) = 1
    /\ last.before[1].participants # <<>>
    /\ ~InList(last.user_id, last.before[1].participants)
    /\ last.before[1].code_content # last.code
    /\ collaboration_sessions[last.session_id].code_content = last.code
    /\ \E c \in Room(rooms, last.session_id) :
           /\ CodeUpdatedReceived(c) # <<>>
           /\ CodeUpdatedReceived(c)[Len(CodeUpdatedReceived(c))].code = last.code

\* C29: in every reachable state every stored session is active, and the
\* last update, if it was on a stored session, was not rejected: create sets
\* is_active and no operation clears it.
C29_AlwaysActive ==
    /\ \A s \in DOMAIN collaboration_sessions : collaboration_sessions[s].is_active
    /\ (last.op = "update" /\ last.before # <<>>) =>
           /\ last.before[1].is_active
           /\ last.ret = "True"

\* two sessions in the store, and an update on one of them, which has a
\* participant, was accepted
C29_Witness ==
    /\ DOMAIN collaboration_sessions = SessionIds
    /\ last.op = "update"
    /\ last.before # <<>>
    /\ last.before[1].participants # <<>>
    /\ last.ret = "True"
    /\ collaboration_sessions[last.session_id].is_active

C30_Step ==
    LET s == last'.session_id
        old == collaboration_sessions
        new == collaboration_sessions'
    IN /\ \A k \in DOMAIN old \ {s} : k \in DOMAIN new /\ new[k] = old[k]
       /\ last'.op = "update" =>
              IF s \in DOMAIN old
              THEN /\ DOMAIN new = DOMAIN old
                   /\ new[s] = [old[s] EXCEPT !.code_content = last'.code,
                                              !.last_modified = new[s].last_modified]
              ELSE new = old
       /\ last'.op = "join" =>
              IF s \in DOMAIN old
              THEN /\ DOMAIN new = DOMAIN old
                   /\ new[s] = [old[s] EXCEPT !.participants = new[s].participants]
              ELSE new = old
       /\ (last'.op = "create" /\ s \notin DOMAIN old) =>
              DOMAIN new = DOMAIN old \cup {s}
       /\ \A k \in DOMAIN new : new[k].last_modified >= new[k].created_at

====
